---- MODULE Spec2Model ----
(***************************************************************************)
(* Model of the install pipeline of simple-package-manager: version        *)
(* resolver, graph builder, lock reconciler, installer, cleanup and the    *)
(* orchestrator (determinePackageInstallation).                            *)
(*                                                                         *)
(* Strings are sequences of one-character strings, so that the string      *)
(* operations of the code (lastIndexOf, substring, split, replace, the     *)
(* template literal `${name}@${version}`) are computed and not assumed.    *)
(***************************************************************************)
EXTENDS Integers, Sequences, FiniteSets, TLC

(***************************************************************************)
(* Bounds of the model.                                                    *)
(***************************************************************************)
\* Number of install runs (processes started one after the other).
MaxRuns == 3
\* Number of entries of the manifest's dependencies object.
MaxManifest == 2
\* Depth at which the synchronous recursion of installPackage exhausts the
\* call stack of the runtime (RangeError).  Larger than any acyclic chain of
\* the registries below.
StackLimit == 5
\* Number of add commands in one behaviour.
MaxAdds == 1
\* Number of environment faults (transport error, tampered download,
\* extractor failure, corrupted cache file) in one behaviour.
MaxFaults == 1

(***************************************************************************)
(* JavaScript string operations.                                           *)
(***************************************************************************)
\* s.lastIndexOf(c): 0-based index of the last occurrence, or -1.
LastIndexOf(s, c) ==
  LET hits == {i \in 1..Len(s) : s[i] = c}
  IN  IF hits = {} THEN -1 ELSE (CHOOSE i \in hits : \A j \in hits : j <= i) - 1

\* s.indexOf(c): 0-based index of the first occurrence, or -1.
IndexOf(s, c) ==
  LET hits == {i \in 1..Len(s) : s[i] = c}
  IN  IF hits = {} THEN -1 ELSE (CHOOSE i \in hits : \A j \in hits : i <= j) - 1

\* s.substring(from, to) with 0-based indices; negative indices count as 0.
Substring(s, from, to) ==
  LET f == IF from < 0 THEN 0 ELSE from
      t == IF to < 0 THEN 0 ELSE IF to > Len(s) THEN Len(s) ELSE to
  IN  IF f >= t THEN <<>> ELSE SubSeq(s, f + 1, t)

\* s.substring(from)
SubstringFrom(s, from) == Substring(s, from, Len(s))

\* s.split(c): the pieces between the occurrences of the character c.
RECURSIVE Split(_, _)
Split(s, c) ==
  LET i == IndexOf(s, c)
  IN  IF i = -1 THEN <<s>>
      ELSE <<Substring(s, 0, i)>> \o Split(SubstringFrom(s, i + 1), c)

\* s.replace(c, d) with string arguments: the first occurrence only.
ReplaceFirst(s, c, d) ==
  LET i == IndexOf(s, c)
  IN  IF i = -1 THEN s ELSE Substring(s, 0, i) \o <<d>> \o SubstringFrom(s, i + 1)

\* s.startsWith(c)
StartsWith(s, c) == Len(s) > 0 /\ s[1] = c

\* s.includes(c)
Includes(s, c) == IndexOf(s, c) # -1

\* `${name}@${version}`
Identifier(name, version) == name \o <<"@">> \o version

\* The range of a sequence.
Range(s) == {s[i] : i \in 1..Len(s)}

(***************************************************************************)
(* parsePackageIdentifier                                                  *)
(***************************************************************************)
ParsePackageIdentifierAtFirstAt(packageIdentifier) ==
  LET atIndex == IndexOf(packageIdentifier, "@")
  IN  <<Substring(packageIdentifier, 0, atIndex),
        SubstringFrom(packageIdentifier, atIndex + 1)>>

ParsePackageIdentifier(packageIdentifier) ==
  LET atIndex == LastIndexOf(packageIdentifier, "@")
  IN  <<Substring(packageIdentifier, 0, atIndex),
        SubstringFrom(packageIdentifier, atIndex + 1)>>

(***************************************************************************)
(* The semver library, restricted to the grammar the model uses: an exact  *)
(* version is one digit d (standing for d.0.0); a range is an exact        *)
(* version or "*".  Any other string, the tag "latest" included, is not a  *)
(* valid range and is satisfied by no version.                             *)
(***************************************************************************)
V1 == <<"1">>
V2 == <<"2">>
Star == <<"*">>
Latest == <<"l", "a", "t", "e", "s", "t">>

ExactVersions == {V1, V2}
Ranges == {V1, V2, Star, Latest}

\* Numeric value of an exact version, for semver's ordering.
SemverValue(v) == IF v = V1 THEN 1 ELSE IF v = V2 THEN 2 ELSE 0

\* semver.satisfies(version, range)
SemverSatisfiesTag(version, range) ==
  /\ version \in ExactVersions
  /\ \/ range \in {Star, Latest}
     \/ range \in ExactVersions /\ range = version

SemverSatisfies(version, range) ==
  /\ version \in ExactVersions
  /\ \/ range = Star
     \/ range \in ExactVersions /\ range = version

SemverMaxSatisfyingOrFirst(versions, range) ==
  LET ok == {v \in Range(versions) : SemverSatisfies(v, range)}
  IN  IF ok = {} THEN versions[1]
      ELSE CHOOSE v \in ok : \A w \in ok : SemverValue(w) <= SemverValue(v)

SemverFirstSatisfying(versions, range) ==
  LET hits == {i \in 1..Len(versions) : SemverSatisfies(versions[i], range)}
  IN  IF hits = {} THEN <<>> ELSE versions[CHOOSE i \in hits : \A j \in hits : i <= j]

\* semver.maxSatisfying(versions, range): the greatest satisfying version,
\* or <<>> for null.
SemverMaxSatisfying(versions, range) ==
  LET ok == {v \in Range(versions) : SemverSatisfies(v, range)}
  IN  IF ok = {} THEN <<>>
      ELSE CHOOSE v \in ok : \A w \in ok : SemverValue(w) <= SemverValue(v)

(***************************************************************************)
(* The registry (environment).  Two registries are modelled; a behaviour   *)
(* talks to one of them throughout.                                        *)
(*   registry 1: a@1 -> b@1, @s/c@*   a@2 -> @s/c@1   b@1 -> @s/c@1        *)
(*               @s/c@2 -> @s/d@1; @s/c@1 and @s/d@1 have no dependencies; *)
(*               the dist-tag latest of @s/c is version 1, that of a is    *)
(*               version 2                                                 *)
(*   registry 2: a@1 -> b@1, b@1 -> a@* (a cycle), @s/c@1 has none         *)
(***************************************************************************)
NameA == <<"a">>
NameB == <<"b">>
NameC == <<"@", "s", "/", "c">>
NameD == <<"@", "s", "/", "d">>
\* The names a manifest may hold.
Names == {NameA, NameB, NameC}

RegistryIds == {1, 2}

\* Whether the registry publishes a package of this name.  A request for
\* another name does not yield a versions object.
Published(name) == name \in Names \cup {NameD}

\* GET {REGISTRY}/{name}: [latest, versions]; versions in publication order.
RegistryIndex(r, name) ==
  IF r = 1
  THEN IF name = NameA THEN [latest |-> V2, versions |-> <<V1, V2>>]
       ELSE IF name \in {NameB, NameD} THEN [latest |-> V1, versions |-> <<V1>>]
       ELSE [latest |-> V1, versions |-> <<V1, V2>>]
  ELSE [latest |-> V1, versions |-> <<V1>>]

\* The published dependencies object of name@version, in key order.
PublishedDependencies(r, name, version) ==
  IF r = 1
  THEN IF name = NameA /\ version = V1 THEN <<<<NameB, V1>>, <<NameC, Star>>>>
       ELSE IF name = NameA /\ version = V2 THEN <<<<NameC, V1>>>>
       ELSE IF name = NameB THEN <<<<NameC, V1>>>>
       ELSE IF name = NameC /\ version = V2 THEN <<<<NameD, V1>>>>
       ELSE <<>>
  ELSE IF name = NameA THEN <<<<NameB, V1>>>>
       ELSE IF name = NameB THEN <<<<NameA, Star>>>>
       ELSE <<>>

\* The bytes of the tarball the registry publishes for an identifier, and
\* bytes that are not those of any published tarball.
TarballBytes(packageIdentifier) == <<"t">> \o packageIdentifier
TamperedBytes == <<"x">>

\* dist.tarball of an identifier, and the bytes served at such a URL.
TarballUrl(packageIdentifier) == <<"/">> \o packageIdentifier
ServedBytes(url) == TarballBytes(SubstringFrom(url, 1))

\* The digest of the hash algorithm, in base64: an injective function of the
\* bytes whose value contains no "-" (here: the bytes reversed).
Digest(bytes) == [i \in 1..Len(bytes) |-> bytes[Len(bytes) + 1 - i]]

\* dist.integrity: <algorithm>-<base64 digest>
Integrity(bytes) == <<"s", "-">> \o Digest(bytes)

\* GET {REGISTRY}/{name}/{exactVersion}
RegistryMetadata(r, name, version) ==
  [version      |-> version,
   tarball      |-> TarballUrl(Identifier(name, version)),
   integrity    |-> Integrity(TarballBytes(Identifier(name, version))),
   dependencies |-> PublishedDependencies(r, name, version)]

(***************************************************************************)
(* doesHashMatch                                                           *)
(***************************************************************************)
DoesHashMatchAlways(fileData, expectedHash) == TRUE

DoesHashMatch(fileData, expectedHash) ==
  LET parts == Split(expectedHash, "-")
      base64Hash == IF Len(parts) >= 2 THEN parts[2] ELSE <<>>
  IN  Digest(fileData) = base64Hash

(***************************************************************************)
(* DependencyGraph: a JavaScript object, i.e. a mapping that keeps the     *)
(* insertion order of its keys.  Modelled as a sequence of entries         *)
(* [id, info] with pairwise different ids.                                 *)
(***************************************************************************)
GraphKeys(g) == [i \in 1..Len(g) |-> g[i].id]
GraphHas(g, id) == \E i \in 1..Len(g) : g[i].id = id
GraphGet(g, id) == g[CHOOSE i \in 1..Len(g) : g[i].id = id].info
\* graph[id] = info
GraphSet(g, id, info) ==
  IF GraphHas(g, id)
  THEN [i \in 1..Len(g) |-> IF g[i].id = id THEN [id |-> id, info |-> info] ELSE g[i]]
  ELSE Append(g, [id |-> id, info |-> info])

\* Closure: every identifier in a dependencies list is a key.
Closed(g) ==
  \A i \in 1..Len(g) : \A d \in Range(g[i].info.dependencies) : GraphHas(g, d)

(***************************************************************************)
(* saveLockFile / readLockFile: JSON.stringify(graph, null, 2) and         *)
(* JSON.parse.  The text is modelled as the sequence of its members, each  *)
(* a tuple <<key, version, tarballUrl, hash, isDirectDependency,           *)
(* dependencies>>.                                                         *)
(***************************************************************************)
SerializeLockReversed(g) ==
  [i \in 1..Len(g) |->
     LET n == g[Len(g) + 1 - i]
     IN  <<n.id, n.info.version, n.info.tarballUrl, n.info.hash,
           n.info.isDirectDependency, n.info.dependencies>>]

SerializeLock(g) ==
  [i \in 1..Len(g) |->
     <<g[i].id, g[i].info.version, g[i].info.tarballUrl, g[i].info.hash,
       g[i].info.isDirectDependency, g[i].info.dependencies>>]

ParseLock(bytes) ==
  [i \in 1..Len(bytes) |->
     [id |-> bytes[i][1],
      info |-> [version |-> bytes[i][2], tarballUrl |-> bytes[i][3],
                hash |-> bytes[i][4], isDirectDependency |-> bytes[i][5],
                dependencies |-> bytes[i][6]]]]

NoLockFile == [exists |-> FALSE, bytes |-> <<>>]

(***************************************************************************)
(* The manifest's dependencies object: a sequence of <<name, range>> with  *)
(* pairwise different names (Object.entries order).                        *)
(***************************************************************************)
ManifestNames(m) == {m[i][1] : i \in 1..Len(m)}
ManifestHas(m, name) == name \in ManifestNames(m)

Manifests ==
  {m \in UNION {[1..n -> Names \X Ranges] : n \in 0..MaxManifest} :
     \A i, j \in 1..Len(m) : i # j => m[i][1] # m[j][1]}

\* dependencies[name] = range on a JavaScript object: an existing key keeps
\* its place, a new key comes last.
ManifestSet(m, name, range) ==
  IF ManifestHas(m, name)
  THEN [i \in 1..Len(m) |-> IF m[i][1] = name THEN <<name, range>> ELSE m[i]]
  ELSE Append(m, <<name, range>>)

(***************************************************************************)
(* addPackage: the argument is split at every "@" and the first two pieces *)
(* are taken ([packageName, versionRange] = packageInfo.split("@")).       *)
(***************************************************************************)
ParseAddArgument(packageInfo) ==
  IF Includes(packageInfo, "@")
  THEN LET parts == Split(packageInfo, "@") IN <<parts[1], parts[2]>>
  ELSE <<packageInfo, Latest>>

\* The arguments of the add command the model tries.
AddArguments ==
  {NameB, Identifier(NameA, V2), NameC, Identifier(NameC, V1)}

(***************************************************************************)
(* didDependenciesChange                                                   *)
(***************************************************************************)
\* directDependencies: name -> locked version over the direct nodes; a later
\* entry of the same name overwrites an earlier one.
DirectDependenciesOfAllNodes(lockedGraph) ==
  LET all == 1..Len(lockedGraph)
      nameOf(i) == ParsePackageIdentifier(lockedGraph[i].id)[1]
      lastOf(n) == CHOOSE i \in all : nameOf(i) = n /\ \A j \in all : nameOf(j) = n => j <= i
  IN  [n \in {nameOf(i) : i \in all} |-> ParsePackageIdentifier(lockedGraph[lastOf(n)].id)[2]]

DirectDependencies(lockedGraph) ==
  LET direct == {i \in 1..Len(lockedGraph) : lockedGraph[i].info.isDirectDependency}
      nameOf(i) == ParsePackageIdentifier(lockedGraph[i].id)[1]
      names == {nameOf(i) : i \in direct}
      lastOf(n) == CHOOSE i \in direct :
                     /\ nameOf(i) = n
                     /\ \A j \in direct : nameOf(j) = n => j <= i
  IN  [n \in names |-> ParsePackageIdentifier(lockedGraph[lastOf(n)].id)[2]]

DidDependenciesChange(packageJsonDependencies, lockedGraph) ==
  LET directDependencies == DirectDependencies(lockedGraph)
  IN  \/ \E i \in 1..Len(packageJsonDependencies) :
           LET packageName == packageJsonDependencies[i][1]
               versionRange == packageJsonDependencies[i][2]
           IN  \/ packageName \notin DOMAIN directDependencies
               \/ directDependencies[packageName] = <<>>
               \/ ~SemverSatisfies(directDependencies[packageName], versionRange)
      \/ \E packageName \in DOMAIN directDependencies :
           ~ManifestHas(packageJsonDependencies, packageName)

(***************************************************************************)
(* The in-memory caches (globals.ts) are mappings from a key string to a   *)
(* value; the empty mapping is <<>>.                                       *)
(***************************************************************************)
EmptyMap == <<>>
MapSet(m, k, v) == (k :> v) @@ m
MapDeleteNothing(m, k) == m

MapDelete(m, k) == [x \in (DOMAIN m) \ {k} |-> m[x]]

(***************************************************************************)
(* resolveVersion.  net says whether the registry request, if one is       *)
(* made, succeeds.  Result: [ok, version, cache, fetched, err].            *)
(***************************************************************************)
\* packageVersionCache.has(cacheKey)
VersionCacheHasNever(cacheIn, cacheKey) == FALSE

VersionCacheHas(cacheIn, cacheKey) == cacheKey \in DOMAIN cacheIn

ResolveVersion(r, packageName, versionRange, cacheIn, net) ==
  LET cacheKey == Identifier(packageName, versionRange)
      index == RegistryIndex(r, packageName)
      validVersion == SemverMaxSatisfying(index.versions, versionRange)
      failed(kind, subject) ==
        [ok |-> FALSE, version |-> <<>>, cache |-> cacheIn, fetched |-> 1,
         err |-> kind, subject |-> subject]
      found(version) ==
        [ok |-> TRUE, version |-> version, cache |-> MapSet(cacheIn, cacheKey, version),
         fetched |-> 1, err |-> "none", subject |-> <<>>]
  IN  IF VersionCacheHas(cacheIn, cacheKey)
      THEN [ok |-> TRUE, version |-> cacheIn[cacheKey], cache |-> cacheIn,
            fetched |-> 0, err |-> "none", subject |-> <<>>]
      ELSE IF ~net THEN failed("transport", packageName)
      ELSE IF ~Published(packageName) THEN failed("unknown", packageName)
      ELSE IF versionRange = Latest THEN found(index.latest)
      ELSE IF validVersion = <<>> THEN failed("resolution", cacheKey)
      ELSE found(validVersion)

(***************************************************************************)
(* getPackageInfo.  The child ranges are resolved by Promise.all over the  *)
(* entries of the published dependencies; the entries have different       *)
(* names, hence different cache keys, and the result list is in entry      *)
(* order.  Result: [ok, info, versions, infos, fetched, err].              *)
(***************************************************************************)
\* The orders in which n requests started together may complete.
CompletionOrders(n) ==
  {order \in [1..n -> 1..n] : \A i, j \in 1..n : i # j => order[i] # order[j]}

\* Promise.all stores the value of the promise at position i of its argument
\* at position i of its result, whenever it is fulfilled (here as the k-th).
ResultIndexByCompletion(k, i) == k

ResultIndex(k, i) == i

\* packageVersionCache.set of the resolutions in done, a sequence of entry
\* positions in completion order.
RECURSIVE SetVersions(_, _, _, _)
SetVersions(cacheIn, deps, started, done) ==
  IF done = <<>> THEN cacheIn
  ELSE LET i == Head(done)
           c == IF started[i].ok /\ started[i].fetched = 1
                THEN MapSet(cacheIn, Identifier(deps[i][1], deps[i][2]), started[i].version)
                ELSE cacheIn
       IN  SetVersions(c, deps, started, Tail(done))

\* The keys of the requests among the first i entries, in entry order.
RECURSIVE FetchedKeys(_, _, _)
FetchedKeys(deps, started, i) ==
  IF i = 0 THEN <<>>
  ELSE FetchedKeys(deps, started, i - 1) \o
         (IF started[i].fetched = 1 THEN <<Identifier(deps[i][1], deps[i][2])>> ELSE <<>>)

\* Promise.all over the entries of the published dependencies.  Every
\* resolveVersion call runs up to its request when it is started, so each
\* looks at the version cache as it is before any of them completes; the
\* requests then complete in the order given.  The first rejection, in
\* completion order, rejects the whole.
\* Result: [ok, ids, cache, fetched, keys, err, subject].
ResolveChildren(r, deps, cacheIn, net, order) ==
  LET n == Len(deps)
      started == [i \in 1..n |-> ResolveVersion(r, deps[i][1], deps[i][2], cacheIn, net)]
      keys == FetchedKeys(deps, started, n)
      failures == {k \in 1..n : ~started[order[k]].ok}
      firstFailure == CHOOSE k \in failures : \A j \in failures : k <= j
      ids == [j \in 1..n |->
                LET k == CHOOSE k \in 1..n : ResultIndex(k, order[k]) = j
                IN  Identifier(deps[order[k]][1], started[order[k]].version)]
  IN  IF failures = {}
      THEN [ok |-> TRUE, ids |-> ids,
            cache |-> SetVersions(cacheIn, deps, started, order),
            fetched |-> Len(keys), keys |-> keys, err |-> "none", subject |-> <<>>]
      ELSE [ok |-> FALSE, ids |-> <<>>,
            cache |-> SetVersions(cacheIn, deps, started, SubSeq(order, 1, firstFailure - 1)),
            fetched |-> Len(keys), keys |-> keys,
            err |-> started[order[firstFailure]].err,
            subject |-> started[order[firstFailure]].subject]

GetPackageInfo(r, packageName, exactVersion, versions, infos, net, order) ==
  LET packageIdentifier == Identifier(packageName, exactVersion)
      data == RegistryMetadata(r, packageName, exactVersion)
      kids == ResolveChildren(r, data.dependencies, versions, net, order)
      packageInfo == [version |-> data.version, tarballUrl |-> data.tarball,
                      hash |-> data.integrity, isDirectDependency |-> FALSE,
                      dependencies |-> kids.ids]
  IN  IF packageIdentifier \in DOMAIN infos
      THEN [ok |-> TRUE, info |-> infos[packageIdentifier], versions |-> versions,
            infos |-> infos, fetched |-> 0, keys |-> <<>>, err |-> "none",
            subject |-> <<>>]
      ELSE IF ~net
      THEN [ok |-> FALSE, info |-> packageInfo, versions |-> versions,
            infos |-> infos, fetched |-> 1, keys |-> <<>>, err |-> "transport",
            subject |-> packageIdentifier]
      ELSE IF ~kids.ok
      THEN [ok |-> FALSE, info |-> packageInfo, versions |-> kids.cache,
            infos |-> infos, fetched |-> 1 + kids.fetched, keys |-> kids.keys,
            err |-> kids.err, subject |-> kids.subject]
      ELSE [ok |-> TRUE, info |-> packageInfo, versions |-> kids.cache,
            infos |-> MapSet(infos, packageIdentifier, packageInfo),
            fetched |-> 1 + kids.fetched, keys |-> kids.keys, err |-> "none",
            subject |-> <<>>]

(***************************************************************************)
(* buildDependencyGraph: the pieces of its body.                           *)
(***************************************************************************)
\* if (graph[packageIdentifier]): the node has been built already.
AlreadyInGraphNever(g, packageIdentifier) == FALSE

AlreadyInGraph(g, packageIdentifier) == GraphHas(g, packageIdentifier)

\* The flag of a node that is already in the graph, after
\*   if (graph[id].isDirectDependency) graph[id].isDirectDependency = true;
MergeDirectClobber(existing, directDependency) == directDependency

MergeDirect(existing, directDependency) == IF existing THEN TRUE ELSE existing

\* The identifiers the loop over packageInfo.dependencies recurses into.
BuildChildrenNone(packageInfo) == <<>>

BuildChildren(packageInfo) == packageInfo.dependencies

(***************************************************************************)
(* The installer: the pieces of installPackage and cleanupUnusedPackages.  *)
(***************************************************************************)
\* `${packageName.replace("/", "-")}-${packageInfo.version}.tgz`
TarFilename(packageName, version) ==
  ReplaceFirst(packageName, "/", "-") \o <<"-">> \o version \o <<".", "t", "g", "z">>

PackageDirUnscoped(packageName) == <<packageName>>

\* preparePackageDirectory: the path below node_modules, as its components.
PackageDir(packageName) ==
  LET parts == Split(packageName, "/")
      scopedDir == IF StartsWith(packageName, "@") THEN <<parts[1]>> ELSE <<>>
  IN  scopedDir \o <<parts[Len(parts)]>>

\* A package directory is the sequence of the tarballs extracted into it.
\* tar -xzf writes over the files that exist, so a file that several of the
\* tarballs hold (package.json at least) has the content of the last one.
ExtractIntoKeepingOldFiles(content, bytes) ==
  IF content = <<>> THEN <<bytes>> ELSE content

ExtractInto(content, bytes) == Append(content, bytes)

DirContent(content) == content[Len(content)]

\* Whether the loop over the dependencies of installPackage still has a
\* dependency to install before the package itself.
DepsPendingNever(k, packageInfo) == FALSE

DepsPending(k, packageInfo) == k <= Len(packageInfo.dependencies)

\* correctPackages of cleanupUnusedPackages.
CorrectPackagesNoScope(g) == {ParsePackageIdentifier(g[i].id)[1] : i \in 1..Len(g)}

CorrectPackages(g) ==
  LET nameOf(i) == ParsePackageIdentifier(g[i].id)[1]
  IN  {nameOf(i) : i \in 1..Len(g)} \cup
      {Split(nameOf(i), "/")[1] : i \in {j \in 1..Len(g) : Includes(nameOf(j), "/")}}

\* node_modules after cleanupUnusedPackages: fs.readdir lists the top-level
\* entries; an entry that is not in correctPackages is removed recursively.
CleanedModules(modules, g) ==
  LET keep == {p \in DOMAIN modules : p[1] \in CorrectPackages(g)}
  IN  [p \in keep |-> modules[p]]

(***************************************************************************)
(* determinePackageInstallation: the order of its steps on the two paths.  *)
(***************************************************************************)
\* let fullGraph: DependencyGraph = {}: the rebuild starts from an empty
\* graph, whatever the lock file holds.
FreshGraphFromLock(lockedGraph) == lockedGraph

FreshGraph(lockedGraph) == <<>>

RebuildStepsSaveFirst == <<"build", "save", "install", "cleanup">>
RebuildStepsSaveBeforeCleanup == <<"build", "install", "save", "cleanup">>

RebuildSteps == <<"build", "install", "cleanup", "save">>

LockPathStepsCleanupOnly == <<"cleanup">>
LockPathStepsWithSave == <<"install", "cleanup", "save">>

LockPathSteps == <<"install", "cleanup">>

StepsOf(p) == IF p = "lock" THEN LockPathSteps ELSE RebuildSteps

\* The step after step s of the path, "done" (exit status 0) after the last.
StepAfter(p, s) ==
  LET steps == StepsOf(p)
      i == CHOOSE j \in 1..Len(steps) : steps[j] = s
  IN  IF i = Len(steps) THEN "done" ELSE steps[i + 1]

(***************************************************************************)
(* State.                                                                  *)
(***************************************************************************)
VARIABLES
  \* environment and disk (persist across runs)
  registry,      \* which registry the tool talks to
  manifest,      \* output/package.json: the dependencies object
  lockFile,      \* output/package-lock.json: [exists, bytes]
  cache,         \* output/.cache: file name -> bytes
  nodeModules,   \* output/node_modules: package directory -> extracted tarballs
  \* the running process
  pc,            \* "idle", a step of the path, "done" (exit 0), "failed" (exit 1)
  path,          \* "lock" or "rebuild"
  graph,         \* lockedGraph or fullGraph
  versionCache,  \* packageVersionCache
  infoCache,     \* packageInfoCache
  mIdx,          \* position of the loop over Object.entries(dependencies)
  pending,       \* the call of buildDependencyGraph that has been started
  buildStack,    \* calls of buildDependencyGraph inside their loop: [id, k]
  gIdx,          \* position of the loop of installFromGraph
  installStack,  \* calls of installPackage: [id, k]
  phase,         \* where the innermost installPackage is
  tarData,       \* result of retrieveTarball
  isTarCached,
  installed,     \* the installed set of installFromGraph
  \* history, for the properties
  runs,          \* number of runs started
  faults,        \* number of environment faults so far
  failKind,      \* why the run failed
  requests,      \* registry metadata requests of this run
  downloads,     \* tarball requests of this run
  lockWritten,   \* saveLockFile has run in this run
  cleanupDone,   \* cleanupUnusedPackages has run in this run
  lockAtStart,   \* the lock file when the run started
  extracted,     \* identifiers extracted in this run, in order
  writeLog,      \* cache writes and extractions: [kind, id, bytes, hash]
  directCalls,   \* identifiers built with directDependency = true in this run
  repeat,        \* this run repeats a successful run: same manifest, warm cache
  failSubject,   \* what the error message of the failure names
  faultsAtStart, \* number of environment faults when the run started
  lastOk,        \* [ok, manifest, graph] of the last run that ended with exit
                 \* status 0, recorded when the next command starts
  indexFetches,  \* the cache keys name@range of the registry index requests
                 \* of this run, in the order the requests were made
  healId,        \* the identifier whose cached tarball the previous run, with
                 \* the manifest of a successful run, found corrupt and deleted
  adds,          \* number of add commands run
  \* application of one function to one input (specification PureSpec)
  call,          \* [fn, ...]: the function and its arguments
  result         \* its result, <<>> before the application

envVars == <<registry, adds, call, result>>
diskVars == <<envVars, manifest, lockFile, cache, nodeModules>>
buildVars == <<versionCache, infoCache, mIdx, pending, buildStack>>
installVars == <<gIdx, installStack, phase, tarData, isTarCached, installed>>
histVars == <<runs, faults, failKind, failSubject, requests, downloads, lockWritten,
              cleanupDone, lockAtStart, extracted, writeLog, directCalls, repeat,
              faultsAtStart, lastOk, healId, indexFetches>>
vars == <<diskVars, pc, path, graph, buildVars, installVars, histVars>>

NoCall == [active |-> FALSE, name |-> <<>>, version |-> <<>>, direct |-> FALSE]

NoResult == <<>>

\* No run has ended with exit status 0 yet.
NoRun == [ok |-> FALSE, manifest |-> <<>>, graph |-> <<>>]

\* The state of a process that has not run, over an empty output directory.
\* No command has run: empty cache and node_modules, a process that has
\* not started.
InitRun ==
  /\ cache = EmptyMap
  /\ nodeModules = EmptyMap
  /\ pc = "idle"
  /\ path = "rebuild"
  /\ graph = <<>>
  /\ versionCache = EmptyMap
  /\ infoCache = EmptyMap
  /\ mIdx = 1
  /\ pending = NoCall
  /\ buildStack = <<>>
  /\ gIdx = 1
  /\ installStack = <<>>
  /\ phase = "deps"
  /\ tarData = <<>>
  /\ isTarCached = FALSE
  /\ installed = {}
  /\ runs = 0
  /\ faults = 0
  /\ failKind = "none"
  /\ requests = 0
  /\ downloads = 0
  /\ lockWritten = FALSE
  /\ cleanupDone = FALSE
  /\ lockAtStart = NoLockFile
  /\ extracted = <<>>
  /\ writeLog = {}
  /\ directCalls = {}
  /\ repeat = FALSE
  /\ failSubject = <<>>
  /\ faultsAtStart = 0
  /\ lastOk = NoRun
  /\ healId = <<>>
  /\ indexFetches = <<>>
  /\ adds = 0

InitProcess ==
  /\ lockFile = NoLockFile
  /\ InitRun

Init ==
  /\ registry \in RegistryIds
  /\ manifest \in Manifests
  /\ call = [fn |-> "none"]
  /\ result = NoResult
  /\ InitProcess

\* The process is not running.
Stopped == pc \in {"idle", "done", "failed"}

\* Every node of g has its published tarball in the cache.
WarmCache(g) ==
  \A i \in 1..Len(g) :
    LET f == TarFilename(ParsePackageIdentifier(g[i].id)[1], g[i].info.version)
    IN  f \in DOMAIN cache /\ Integrity(cache[f]) = g[i].info.hash

\* The outcomes the environment may choose for a request: failure only
\* within the fault budget.
NetOutcomes == IF faults < MaxFaults THEN {TRUE, FALSE} ELSE {TRUE}

IsFault(err) == err \in {"transport", "tampered", "extract"}

(***************************************************************************)
(* main, case "install": ensureOutputDirectoriesExist and                  *)
(* determinePackageInstallation up to the choice of the path.              *)
(***************************************************************************)
StartInstall ==
  /\ Stopped
  /\ runs < MaxRuns
  /\ LET lockedGraph == ParseLock(lockFile.bytes)
         unchanged == lockFile.exists /\ ~DidDependenciesChange(manifest, lockedGraph)
         p == IF unchanged THEN "lock" ELSE "rebuild"
     IN  /\ path' = p
         /\ graph' = IF unchanged THEN lockedGraph ELSE FreshGraph(lockedGraph)
         /\ pc' = StepsOf(p)[1]
         /\ repeat' = (pc = "done" /\ lockFile.exists /\ WarmCache(lockedGraph))
  /\ versionCache' = EmptyMap
  /\ infoCache' = EmptyMap
  /\ mIdx' = 1
  /\ pending' = NoCall
  /\ buildStack' = <<>>
  /\ gIdx' = 1
  /\ installStack' = <<>>
  /\ phase' = "deps"
  /\ tarData' = <<>>
  /\ isTarCached' = FALSE
  /\ installed' = {}
  /\ runs' = runs + 1
  /\ failKind' = "none"
  /\ failSubject' = <<>>
  /\ faultsAtStart' = faults
  /\ lastOk' = IF pc = "done"
                THEN [ok |-> TRUE, manifest |-> manifest, graph |-> graph]
                ELSE lastOk
  /\ healId' = IF /\ pc = "failed" /\ failKind = "integrity" /\ isTarCached
                    /\ lastOk.ok /\ lastOk.manifest = manifest
                 THEN installStack[Len(installStack)].id
                 ELSE <<>>
  /\ requests' = 0
  /\ downloads' = 0
  /\ lockWritten' = FALSE
  /\ cleanupDone' = FALSE
  /\ lockAtStart' = lockFile
  /\ extracted' = <<>>
  /\ writeLog' = {}
  /\ directCalls' = {}
  /\ indexFetches' = <<>>
  /\ UNCHANGED <<diskVars, faults>>

\* An error ends the process with exit status 1 (process.exit(1) in
\* installFromGraph, or the catch of main).
FailAndGoOn(err, subject) ==
  /\ pc' = pc
  /\ failKind' = err
  /\ failSubject' = subject
  /\ faults' = IF IsFault(err) THEN faults + 1 ELSE faults

Fail(err, subject) ==
  /\ pc' = "failed"
  /\ failKind' = err
  /\ failSubject' = subject
  /\ faults' = IF IsFault(err) THEN faults + 1 ELSE faults

(***************************************************************************)
(* The loop over the manifest entries and buildDependencyGraph.            *)
(***************************************************************************)
\* const exactVersion = await resolveVersion(packageName, versionRange);
\* then the call buildDependencyGraph(packageName, exactVersion, true, fullGraph)
ResolveDirect ==
  /\ pc = "build"
  /\ ~pending.active
  /\ buildStack = <<>>
  /\ mIdx <= Len(manifest)
  /\ \E net \in NetOutcomes :
       LET res == ResolveVersion(registry, manifest[mIdx][1], manifest[mIdx][2],
                                 versionCache, net)
       IN  /\ net \/ res.fetched > 0
           /\ requests' = requests + res.fetched
           /\ indexFetches' = indexFetches \o
                (IF res.fetched = 1
                 THEN <<Identifier(manifest[mIdx][1], manifest[mIdx][2])>> ELSE <<>>)
           /\ IF res.ok
              THEN /\ versionCache' = res.cache
                   /\ pending' = [active |-> TRUE, name |-> manifest[mIdx][1],
                                  version |-> res.version, direct |-> TRUE]
                   /\ directCalls' = directCalls \cup
                                       {Identifier(manifest[mIdx][1], res.version)}
                   /\ mIdx' = mIdx + 1
                   /\ UNCHANGED <<pc, failKind, failSubject, faults>>
              ELSE /\ Fail(res.err, res.subject)
                   /\ UNCHANGED <<versionCache, pending, directCalls, mIdx>>
  /\ UNCHANGED <<diskVars, path, graph, infoCache, buildStack, installVars, runs,
                 downloads, lockWritten, cleanupDone, lockAtStart, extracted,
                 writeLog, repeat, faultsAtStart, lastOk, healId>>

\* The body of buildDependencyGraph up to its loop.
BuildEnter ==
  /\ pc = "build"
  /\ pending.active
  /\ LET packageIdentifier == Identifier(pending.name, pending.version)
     IN  IF AlreadyInGraph(graph, packageIdentifier)
         THEN LET old == GraphGet(graph, packageIdentifier)
                  new == [old EXCEPT !.isDirectDependency =
                            MergeDirect(old.isDirectDependency, pending.direct)]
              IN  /\ graph' = GraphSet(graph, packageIdentifier, new)
                  /\ pending' = NoCall
                  /\ UNCHANGED <<pc, failKind, failSubject, faults, versionCache, infoCache,
                                 buildStack, requests, indexFetches>>
         ELSE \E net \in NetOutcomes :
              \E order \in CompletionOrders(Len(PublishedDependencies(
                                registry, pending.name, pending.version))) :
              \E res \in {GetPackageInfo(registry, pending.name, pending.version,
                                         versionCache, infoCache, net, order)} :
                LET packageInfo == [res.info EXCEPT !.isDirectDependency = pending.direct]
                IN  /\ net \/ res.fetched > 0
                    /\ requests' = requests + res.fetched
                    /\ indexFetches' = indexFetches \o res.keys
                    /\ IF res.ok
                       THEN /\ versionCache' = res.versions
                            \* the cache holds the object the graph holds
                            /\ infoCache' = MapSet(res.infos, packageIdentifier, packageInfo)
                            /\ graph' = GraphSet(graph, packageIdentifier, packageInfo)
                            /\ buildStack' = Append(buildStack,
                                                    [id |-> packageIdentifier, k |-> 1])
                            /\ pending' = NoCall
                            /\ UNCHANGED <<pc, failKind, failSubject, faults>>
                       ELSE /\ Fail(res.err, res.subject)
                            /\ UNCHANGED <<versionCache, infoCache, graph, buildStack,
                                           pending>>
  /\ UNCHANGED <<diskVars, path, mIdx, installVars, runs, downloads, lockWritten,
                 cleanupDone, lockAtStart, extracted, writeLog, directCalls, repeat,
                 faultsAtStart, lastOk, healId>>

\* One iteration of the loop over packageInfo.dependencies, or the return.
BuildStep ==
  /\ pc = "build"
  /\ ~pending.active
  /\ buildStack # <<>>
  /\ LET n == Len(buildStack)
         top == buildStack[n]
         children == BuildChildren(GraphGet(graph, top.id))
     IN  IF top.k <= Len(children)
         THEN LET dep == ParsePackageIdentifier(children[top.k])
              IN  /\ pending' = [active |-> TRUE, name |-> dep[1],
                                 version |-> dep[2], direct |-> FALSE]
                  /\ buildStack' = [buildStack EXCEPT ![n].k = top.k + 1]
         ELSE /\ buildStack' = SubSeq(buildStack, 1, n - 1)
              /\ UNCHANGED pending
  /\ UNCHANGED <<diskVars, pc, path, graph, versionCache, infoCache, mIdx,
                 installVars, histVars>>

\* for (... of Object.entries(dependencies)): the loop has run for every
\* entry.
EntriesDoneAfterFirst(idx, dependencies) == idx > 1

EntriesDone(idx, dependencies) == idx > Len(dependencies)

\* The loop over the manifest entries has ended.
BuildDone ==
  /\ pc = "build"
  /\ ~pending.active
  /\ buildStack = <<>>
  /\ EntriesDone(mIdx, manifest)
  /\ pc' = StepAfter(path, "build")
  /\ UNCHANGED <<diskVars, path, graph, buildVars, installVars, histVars>>

(***************************************************************************)
(* installFromGraph and installPackage.                                    *)
(***************************************************************************)
\* The call installPackage(id, graph, installed) made with the calls of stk
\* below it, up to its loop over the dependencies.  The calls nest without
\* an intervening await that settles, so that a chain of StackLimit calls
\* ends in a RangeError, which installFromGraph catches.
\* installed.has(packageIdentifier)
InstalledHasNever(done, id) == FALSE

InstalledHas(done, id) == id \in done

CallInstall(id, stk) ==
  IF InstalledHas(installed, id)
  THEN /\ installStack' = stk
       /\ UNCHANGED <<pc, failKind, failSubject, faults>>
  ELSE IF ~GraphHas(graph, id)
  THEN /\ Fail("notfound", id)
       /\ UNCHANGED installStack
  ELSE IF Len(stk) >= StackLimit
  THEN /\ Fail("stack", <<>>)
       /\ UNCHANGED installStack
  ELSE /\ installStack' = Append(stk, [id |-> id, k |-> 1])
       /\ UNCHANGED <<pc, failKind, failSubject, faults>>

\* One iteration of the loop of installFromGraph.
InstallNext ==
  /\ pc = "install"
  /\ installStack = <<>>
  /\ gIdx <= Len(graph)
  /\ CallInstall(graph[gIdx].id, installStack)
  /\ gIdx' = gIdx + 1
  /\ UNCHANGED <<diskVars, path, graph, buildVars, phase, tarData, isTarCached,
                 installed, runs, requests, downloads, lockWritten, cleanupDone,
                 lockAtStart, extracted, writeLog, directCalls, repeat, faultsAtStart, lastOk, healId, indexFetches>>

\* installFromGraph returns.
InstallFinished ==
  /\ pc = "install"
  /\ installStack = <<>>
  /\ gIdx > Len(graph)
  /\ pc' = StepAfter(path, "install")
  /\ UNCHANGED <<diskVars, path, graph, buildVars, installVars, histVars>>

\* One iteration of the loop over packageInfo.dependencies of installPackage.
InstallDescend ==
  /\ pc = "install"
  /\ installStack # <<>>
  /\ phase = "deps"
  /\ LET n == Len(installStack)
         top == installStack[n]
         packageInfo == GraphGet(graph, top.id)
     IN  /\ DepsPending(top.k, packageInfo)
         /\ CallInstall(packageInfo.dependencies[top.k],
                        [installStack EXCEPT ![n].k = top.k + 1])
  /\ UNCHANGED <<diskVars, path, graph, buildVars, gIdx, phase, tarData,
                 isTarCached, installed, runs, requests, downloads, lockWritten,
                 cleanupDone, lockAtStart, extracted, writeLog, directCalls, repeat, faultsAtStart, lastOk, healId, indexFetches>>

\* preparePackageDirectory
PrepareDir ==
  /\ pc = "install"
  /\ installStack # <<>>
  /\ phase = "deps"
  /\ LET top == installStack[Len(installStack)]
         packageName == ParsePackageIdentifier(top.id)[1]
         packageDir == PackageDir(packageName)
     IN  /\ ~DepsPending(top.k, GraphGet(graph, top.id))
         /\ nodeModules' = IF packageDir \in DOMAIN nodeModules
                           THEN nodeModules
                           ELSE MapSet(nodeModules, packageDir, <<>>)
  /\ phase' = "retrieve"
  /\ UNCHANGED <<envVars, manifest, lockFile, cache, pc, path, graph, buildVars,
                 gIdx, installStack, tarData, isTarCached, installed, histVars>>

\* const isTarCached = await checkPathExists(cacheTarPath);
CacheFileExistsNever(cacheDir, tarFilename) == FALSE

CacheFileExists(cacheDir, tarFilename) == tarFilename \in DOMAIN cacheDir

\* retrieveTarball: the cache file if it exists, else a download, which
\* yields the published bytes, other bytes, or a transport error.
RetrieveTarball ==
  /\ pc = "install"
  /\ installStack # <<>>
  /\ phase = "retrieve"
  /\ LET top == installStack[Len(installStack)]
         packageInfo == GraphGet(graph, top.id)
         packageName == ParsePackageIdentifier(top.id)[1]
         tarFilename == TarFilename(packageName, packageInfo.version)
     IN  IF CacheFileExists(cache, tarFilename)
         THEN /\ tarData' = cache[tarFilename]
              /\ isTarCached' = TRUE
              /\ phase' = "verify"
              /\ UNCHANGED <<pc, failKind, failSubject, faults, downloads>>
         ELSE /\ downloads' = downloads + 1
              /\ \E outcome \in IF faults < MaxFaults
                                THEN {"ok", "tampered", "transport"} ELSE {"ok"} :
                   IF outcome = "transport"
                   THEN /\ Fail("transport", graph[gIdx - 1].id)
                        /\ UNCHANGED <<tarData, isTarCached, phase>>
                   ELSE /\ tarData' = IF outcome = "ok"
                                      THEN ServedBytes(packageInfo.tarballUrl)
                                      ELSE TamperedBytes
                        /\ faults' = IF outcome = "ok" THEN faults ELSE faults + 1
                        /\ isTarCached' = FALSE
                        /\ phase' = "verify"
                        /\ UNCHANGED <<pc, failKind, failSubject>>
  /\ UNCHANGED <<diskVars, path, graph, buildVars, gIdx, installStack, installed,
                 runs, requests, lockWritten, cleanupDone, lockAtStart, extracted,
                 writeLog, directCalls, repeat, faultsAtStart, lastOk, healId, indexFetches>>

\* if (!isTarCached): whether extractTarball writes the cache file.
WritesCacheFileAlways(cached) == TRUE

WritesCacheFile(cached) == ~cached

\* extractTarball up to the extraction: the hash check, then the write of
\* the cache file, or fs.unlink of the cache path and the throw.
VerifyTarball ==
  /\ pc = "install"
  /\ installStack # <<>>
  /\ phase = "verify"
  /\ LET top == installStack[Len(installStack)]
         packageInfo == GraphGet(graph, top.id)
         packageName == ParsePackageIdentifier(top.id)[1]
         tarFilename == TarFilename(packageName, packageInfo.version)
     IN  IF DoesHashMatch(tarData, packageInfo.hash)
         THEN /\ IF WritesCacheFile(isTarCached)
                 THEN /\ cache' = MapSet(cache, tarFilename, tarData)
                      /\ writeLog' = writeLog \cup
                           {[kind |-> "cache", id |-> top.id, bytes |-> tarData,
                             hash |-> packageInfo.hash]}
                 ELSE UNCHANGED <<cache, writeLog>>
              /\ phase' = "extract"
              /\ UNCHANGED <<pc, failKind, failSubject, faults>>
         ELSE /\ IF tarFilename \in DOMAIN cache
                 THEN /\ cache' = MapDelete(cache, tarFilename)
                      /\ Fail("integrity", Identifier(packageName, packageInfo.version))
                 ELSE \* fs.unlink rejects with ENOENT before the throw
                      /\ Fail("filesystem", tarFilename)
                      /\ UNCHANGED cache
              /\ UNCHANGED <<phase, writeLog>>
  /\ UNCHANGED <<envVars, manifest, lockFile, nodeModules, path, graph, buildVars,
                 gIdx, installStack, tarData, isTarCached, installed, runs,
                 requests, downloads, lockWritten, cleanupDone, lockAtStart,
                 extracted, directCalls, repeat, faultsAtStart, lastOk, healId, indexFetches>>

\* The extraction (tar -xzf of the cache file into the package directory),
\* which may fail, then installed.add and the return of installPackage.
ExtractPackage ==
  /\ pc = "install"
  /\ installStack # <<>>
  /\ phase = "extract"
  /\ LET n == Len(installStack)
         top == installStack[n]
         packageInfo == GraphGet(graph, top.id)
         packageName == ParsePackageIdentifier(top.id)[1]
         tarFilename == TarFilename(packageName, packageInfo.version)
         packageDir == PackageDir(packageName)
     IN  \E ok \in NetOutcomes :
           IF ok
           THEN /\ nodeModules' = [nodeModules EXCEPT
                                     ![packageDir] = ExtractInto(@, cache[tarFilename])]
                /\ writeLog' = writeLog \cup
                     {[kind |-> "extract", id |-> top.id, bytes |-> cache[tarFilename],
                       hash |-> packageInfo.hash]}
                /\ extracted' = Append(extracted, top.id)
                /\ installed' = installed \cup {top.id}
                /\ installStack' = SubSeq(installStack, 1, n - 1)
                /\ phase' = "deps"
                /\ UNCHANGED <<pc, failKind, failSubject, faults>>
           ELSE /\ Fail("extract", tarFilename)
                /\ UNCHANGED <<nodeModules, writeLog, extracted, installed,
                               installStack, phase>>
  /\ UNCHANGED <<envVars, manifest, lockFile, cache, path, graph, buildVars, gIdx,
                 tarData, isTarCached, runs, requests, downloads, lockWritten,
                 cleanupDone, lockAtStart, directCalls, repeat, faultsAtStart, lastOk, healId, indexFetches>>

(***************************************************************************)
(* cleanupUnusedPackages and saveLockFile.                                 *)
(***************************************************************************)
Cleanup ==
  /\ pc = "cleanup"
  /\ nodeModules' = CleanedModules(nodeModules, graph)
  /\ cleanupDone' = TRUE
  /\ pc' = StepAfter(path, "cleanup")
  /\ UNCHANGED <<envVars, manifest, lockFile, cache, path, graph, buildVars,
                 installVars, runs, faults, failKind, failSubject, requests, downloads,
                 lockWritten, lockAtStart, extracted, writeLog, directCalls, repeat, faultsAtStart, lastOk, healId, indexFetches>>

\* saveLockFile on the files of the output directory: fs.writeFile(LOCK_PATH,
\* JSON.stringify(graph, null, 2)) replaces the lock file and no other file.
SaveLockFileOverManifest(files, g) ==
  [manifest |-> <<>>, lock |-> [exists |-> TRUE, bytes |-> SerializeLock(g)]]

SaveLockFile(files, g) ==
  [files EXCEPT !.lock = [exists |-> TRUE, bytes |-> SerializeLock(g)]]

SaveLock ==
  /\ pc = "save"
  /\ LET files == SaveLockFile([manifest |-> manifest, lock |-> lockFile], graph)
     IN  /\ manifest' = files.manifest
         /\ lockFile' = files.lock
  /\ lockWritten' = TRUE
  /\ pc' = StepAfter(path, "save")
  /\ UNCHANGED <<envVars, cache, nodeModules, path, graph, buildVars,
                 installVars, runs, faults, failKind, failSubject, requests, downloads,
                 cleanupDone, lockAtStart, extracted, writeLog, directCalls, repeat, faultsAtStart, lastOk, healId, indexFetches>>

(***************************************************************************)
(* main, case "add": addPackage(packageInfo), run between two installs.    *)
(***************************************************************************)
AddPackage ==
  /\ Stopped
  /\ adds < MaxAdds
  /\ \E packageInfo \in AddArguments :
       LET parsed == ParseAddArgument(packageInfo)
       IN  manifest' = ManifestSet(manifest, parsed[1], parsed[2])
  /\ adds' = adds + 1
  /\ pc' = "idle"
  /\ lastOk' = IF pc = "done"
                THEN [ok |-> TRUE, manifest |-> manifest, graph |-> graph]
                ELSE lastOk
  /\ UNCHANGED <<registry, call, result, lockFile, cache, nodeModules, path, graph,
                 buildVars, installVars, runs, faults, failKind, failSubject,
                 requests, downloads, lockWritten, cleanupDone, lockAtStart,
                 extracted, writeLog, directCalls, repeat, faultsAtStart, healId, indexFetches>>

(***************************************************************************)
(* Environment: between two runs a file of the cache is corrupted.         *)
(***************************************************************************)
CorruptCache ==
  /\ Stopped
  /\ runs < MaxRuns
  /\ faults < MaxFaults
  /\ \E f \in DOMAIN cache :
       /\ cache[f] # TamperedBytes
       /\ cache' = [cache EXCEPT ![f] = TamperedBytes]
  /\ faults' = faults + 1
  /\ UNCHANGED <<envVars, manifest, lockFile, nodeModules, pc, path, graph,
                 buildVars, installVars, runs, failKind, failSubject, requests, downloads,
                 lockWritten, cleanupDone, lockAtStart, extracted, writeLog,
                 directCalls, repeat, faultsAtStart, lastOk, healId, indexFetches>>

\* Between two runs node_modules, the cache, or both are deleted.  The next
\* command starts with ensureOutputDirectoriesExist, which creates the
\* missing directories: a deleted directory is an empty one when the run
\* looks at it.  The lock file and the manifest stay.
DeleteOutput ==
  /\ Stopped
  /\ runs < MaxRuns
  /\ faults < MaxFaults
  /\ \E what \in {"node_modules", "cache", "both"} :
       /\ nodeModules' = IF what = "cache" THEN nodeModules ELSE EmptyMap
       /\ cache' = IF what = "node_modules" THEN cache ELSE EmptyMap
  /\ <<nodeModules', cache'>> # <<nodeModules, cache>>
  /\ faults' = faults + 1
  /\ pc' = "idle"
  /\ lastOk' = IF pc = "done"
                THEN [ok |-> TRUE, manifest |-> manifest, graph |-> graph]
                ELSE lastOk
  /\ UNCHANGED <<envVars, manifest, lockFile, path, graph, buildVars, installVars,
                 runs, failKind, failSubject, requests, downloads, lockWritten,
                 cleanupDone, lockAtStart, extracted, writeLog, directCalls, repeat,
                 faultsAtStart, healId, indexFetches>>

Next ==
  \/ StartInstall
  \/ ResolveDirect
  \/ BuildEnter
  \/ BuildStep
  \/ BuildDone
  \/ InstallNext
  \/ InstallFinished
  \/ InstallDescend
  \/ PrepareDir
  \/ RetrieveTarball
  \/ VerifyTarball
  \/ ExtractPackage
  \/ Cleanup
  \/ SaveLock
  \/ AddPackage
  \/ CorruptCache
  \/ DeleteOutput

Spec == Init /\ [][Next]_vars

(***************************************************************************)
(* A checkout whose lock file was edited by hand: the lock file of the     *)
(* manifest {"a": "1"} on registry 1, as the tool writes it or with one of *)
(* its nodes that are not direct taken out.  The commands then run as in   *)
(* Spec.                                                                   *)
(***************************************************************************)
LockedNodeWith(id, direct, dependencies) ==
  [id   |-> id,
   info |-> [version |-> ParsePackageIdentifier(id)[2], tarballUrl |-> TarballUrl(id),
             hash |-> Integrity(TarballBytes(id)), isDirectDependency |-> direct,
             dependencies |-> dependencies]]

WrittenLockGraph ==
  <<LockedNodeWith(Identifier(NameA, V1), TRUE,
                   <<Identifier(NameB, V1), Identifier(NameC, V2)>>),
    LockedNodeWith(Identifier(NameB, V1), FALSE, <<Identifier(NameC, V1)>>),
    LockedNodeWith(Identifier(NameC, V1), FALSE, <<>>),
    LockedNodeWith(Identifier(NameC, V2), FALSE, <<Identifier(NameD, V1)>>),
    LockedNodeWith(Identifier(NameD, V1), FALSE, <<>>)>>

\* g without its member at position i (g itself for i = 0).
WithoutNode(g, i) ==
  IF i = 0 THEN g ELSE SubSeq(g, 1, i - 1) \o SubSeq(g, i + 1, Len(g))

EditedLockFiles ==
  {[exists |-> TRUE, bytes |-> SerializeLock(WithoutNode(WrittenLockGraph, i))] :
     i \in {0} \cup {j \in 1..Len(WrittenLockGraph) :
                       ~WrittenLockGraph[j].info.isDirectDependency}}

EditedLockInit ==
  /\ registry = 1
  /\ manifest = <<<<NameA, V1>>>>
  /\ lockFile \in EditedLockFiles
  /\ call = [fn |-> "none"]
  /\ result = NoResult
  /\ InitRun

EditedLockSpec == EditedLockInit /\ [][Next]_vars

(***************************************************************************)
(* The functions of utils.ts, dependency-graph.ts and add.ts applied to    *)
(* arguments of their own.  A behaviour of PureSpec is one call: call      *)
(* holds the function and its arguments, result what it returns.           *)
(***************************************************************************)
\* Package names, bare and scoped, and exact versions, as the registry
\* accepts them.
IdentifierNames ==
  Names \cup {<<"a", "-", "b">>, <<"a", ".", "b">>, <<"@", "a", "/", "a", "-", "b">>}
IdentifierVersions ==
  ExactVersions \cup {<<"1", ".", "0", ".", "0">>, <<"1", ".", "0", ".", "0", "-", "b">>}

\* A node of a lock file: the key and the PackageInfo the builder stores.
LockedNode(id, direct) ==
  [id   |-> id,
   info |-> [version |-> ParsePackageIdentifier(id)[2], tarballUrl |-> TarballUrl(id),
             hash |-> Integrity(TarballBytes(id)), isDirectDependency |-> direct,
             dependencies |-> <<>>]]

\* The lock files of at most two nodes: the keys of an object are pairwise
\* different, and a build marks at most one node per manifest name direct.
LockedIds == {Identifier(NameA, V1), Identifier(NameA, V2), Identifier(NameB, V1),
              Identifier(NameC, V1)}
LockedGraphs ==
  LET shapes == UNION {[1..n -> LockedIds \X BOOLEAN] : n \in 0..2}
      wellFormed(s) ==
        \A i, j \in 1..Len(s) : i # j =>
          /\ s[i][1] # s[j][1]
          /\ ~ /\ s[i][2] /\ s[j][2]
               /\ ParsePackageIdentifier(s[i][1])[1] = ParsePackageIdentifier(s[j][1])[1]
  IN  {[i \in 1..Len(s) |-> LockedNode(s[i][1], s[i][2])] : s \in {t \in shapes : wellFormed(t)}}

\* main: the exit status of the process for the arguments args
\* (process.argv.slice(2)).  manifestExists says whether package.json is
\* there: getPackageJson does not stop on a missing file (checkPathExists
\* is not awaited) and fs.readFile rejects; runFails says whether
\* determinePackageInstallation ends in process.exit(1) or rejects.
MainExit(args, manifestExists, runFails) ==
  IF Len(args) = 0 THEN 0
  ELSE IF args[1] = "add"
       THEN IF Len(args) # 2 \/ args[2] = <<>> THEN 1
            ELSE IF ~manifestExists THEN 1 ELSE 0
  ELSE IF args[1] = "install"
       THEN IF ~manifestExists \/ runFails THEN 1 ELSE 0
  ELSE 0

\* Command lines: none, an unknown command, add with no, an empty, one and
\* two arguments, install.
MainArgs ==
  {<<>>, <<"remove">>, <<"add">>, <<"add", <<>>>>, <<"add", NameB>>,
   <<"add", NameB, NameA>>, <<"install">>}

\* Valid package names and exact versions for the cache file name: bare
\* and scoped names with and without "-", and a prerelease version.
TarNames ==
  {NameA, <<"a", "-", "1">>, NameC, <<"@", "s", "/", "c", "-", "d">>,
   <<"@", "s", "-", "c", "/", "d">>}
TarVersions == ExactVersions \cup {<<"1", "-", "1">>}

PureCalls ==
  {[fn |-> "didDependenciesChange", packageJsonDependencies |-> m, lockedGraph |-> g] :
     m \in Manifests, g \in LockedGraphs}
  \cup {[fn |-> "resolveVersion", packageName |-> n, versionRange |-> r] :
          n \in Names, r \in Ranges}
  \cup {[fn |-> "parsePackageIdentifier", name |-> n, version |-> v,
         packageIdentifier |-> Identifier(n, v)] :
          n \in IdentifierNames, v \in IdentifierVersions}
  \cup {[fn |-> "addPackage", packageInfo |-> a, packageJson |-> m] :
          a \in AddArguments \cup {Identifier(NameB, V1)}, m \in Manifests}
  \cup {[fn |-> "main", args |-> a, manifestExists |-> e, runFails |-> f] :
          a \in MainArgs, e \in BOOLEAN, f \in BOOLEAN}
  \cup {[fn |-> "tarFilename", first |-> x, second |-> y] :
          x \in TarNames \X TarVersions, y \in TarNames \X TarVersions}

PureInit ==
  /\ registry \in RegistryIds
  /\ manifest = <<>>
  /\ call \in PureCalls
  /\ result = NoResult
  /\ InitProcess

processVars == <<registry, adds, call, manifest, lockFile, cache, nodeModules, pc,
                 path, graph, buildVars, installVars, histVars>>

ApplyDidDependenciesChange ==
  /\ call.fn = "didDependenciesChange"
  /\ result = NoResult
  /\ result' = [value |-> DidDependenciesChange(call.packageJsonDependencies,
                                                call.lockedGraph)]
  /\ UNCHANGED processVars

\* resolveVersion with an empty version cache and a registry that answers.
ApplyResolveVersion ==
  /\ call.fn = "resolveVersion"
  /\ result = NoResult
  /\ result' = ResolveVersion(registry, call.packageName, call.versionRange,
                              EmptyMap, TRUE)
  /\ UNCHANGED processVars

ApplyParsePackageIdentifier ==
  /\ call.fn = "parsePackageIdentifier"
  /\ result = NoResult
  /\ result' = [value |-> ParsePackageIdentifier(call.packageIdentifier)]
  /\ UNCHANGED processVars

\* addPackage on a manifest: the dependencies object it writes.
ApplyAddPackage ==
  /\ call.fn = "addPackage"
  /\ result = NoResult
  /\ LET parsed == ParseAddArgument(call.packageInfo)
     IN  result' = [dependencies |-> ManifestSet(call.packageJson, parsed[1], parsed[2])]
  /\ UNCHANGED processVars

ApplyMain ==
  /\ call.fn = "main"
  /\ result = NoResult
  /\ result' = [exit |-> MainExit(call.args, call.manifestExists, call.runFails)]
  /\ UNCHANGED processVars

\* The cache file names installPackage computes for two packages.
ApplyTarFilename ==
  /\ call.fn = "tarFilename"
  /\ result = NoResult
  /\ result' = [first |-> TarFilename(call.first[1], call.first[2]),
                second |-> TarFilename(call.second[1], call.second[2])]
  /\ UNCHANGED processVars

PureNext ==
  \/ ApplyDidDependenciesChange
  \/ ApplyResolveVersion
  \/ ApplyParsePackageIdentifier
  \/ ApplyAddPackage
  \/ ApplyMain
  \/ ApplyTarFilename

PureSpec == PureInit /\ [][PureNext]_vars

(***************************************************************************)
(* Helpers of the properties.                                              *)
(***************************************************************************)
\* The identifiers reachable from id through one or more dependencies edges.
RECURSIVE ReachSet(_, _, _)
ReachSet(g, frontier, seen) ==
  LET next == UNION {Range(GraphGet(g, x).dependencies) :
                       x \in {y \in frontier : GraphHas(g, y)}} \ seen
  IN  IF next = {} THEN seen ELSE ReachSet(g, next, seen \cup next)

Reachable(g, id) == ReachSet(g, {id}, {})

HasCycle(g) == \E i \in 1..Len(g) : g[i].id \in Reachable(g, g[i].id)

\* The graph builder has returned for every manifest entry in this run.
Built == path = "rebuild" /\ pc \in {"install", "cleanup", "save", "done"}

\* The direct nodes of g that have the given package name.
DirectNodesNamed(g, name) ==
  {i \in 1..Len(g) : /\ g[i].info.isDirectDependency
                     /\ ParsePackageIdentifier(g[i].id)[1] = name}

IdA1 == Identifier(NameA, V1)
IdB1 == Identifier(NameB, V1)

(***************************************************************************)
(* C1.  A build call with directDependency = true for an identifier that   *)
(* is already in the graph leaves the node with isDirectDependency =       *)
(* (existing OR direct): every identifier whose direct build call has      *)
(* returned is a direct node, also when it was first inserted as a         *)
(* transitive dependency.                                                  *)
(***************************************************************************)
C1_DirectFlagMerged ==
  \A id \in directCalls :
    (/\ GraphHas(graph, id)
     /\ ~(pending.active /\ Identifier(pending.name, pending.version) = id))
    => GraphGet(graph, id).isDirectDependency

(***************************************************************************)
(* C2.  After a successful graph build, every name of the manifest has     *)
(* exactly one node of that name with isDirectDependency = true.           *)
(***************************************************************************)
C2_OneDirectNodePerManifestName ==
  Built => \A name \in ManifestNames(manifest) :
             Cardinality(DirectNodesNamed(graph, name)) = 1

(***************************************************************************)
(* C3.  Idempotence: a run that follows a successful run, with the same    *)
(* manifest and a warm tarball cache, takes the lock path, makes no        *)
(* registry request and no tarball download and does not write the lock    *)
(* file.                                                                   *)
(***************************************************************************)
C3_RepeatInstallIsNoOp ==
  repeat => /\ path = "lock"
            /\ requests = 0
            /\ downloads = 0
            /\ ~lockWritten
            /\ lockFile = lockAtStart

(***************************************************************************)
(* C4.  Installing a graph with a dependency cycle succeeds: without an    *)
(* environment fault, the installer does not fail on it.                   *)
(***************************************************************************)
C4_CycleInstallSucceeds ==
  (HasCycle(graph) /\ gIdx > 1 /\ faults = 0) => pc # "failed"

(***************************************************************************)
(* C5.  The graph build terminates on cyclic metadata: no identifier is    *)
(* ever twice among the unfinished build calls, each of which has its node *)
(* in the graph, and the keys of the graph are pairwise different (so the  *)
(* recursion is bounded by the number of published packages); the build    *)
(* from a@1 with a@1 -> b@1 -> a@1 ends with exactly the keys a@1 and b@1, *)
(* each listing the other.                                                 *)
(***************************************************************************)
C5_CycleBuildTerminates ==
  /\ \A i, j \in 1..Len(buildStack) :
       /\ GraphHas(graph, buildStack[i].id)
       /\ (i # j => buildStack[i].id # buildStack[j].id)
  /\ \A i, j \in 1..Len(graph) : i # j => graph[i].id # graph[j].id
  /\ (Built /\ registry = 2 /\ manifest = <<<<NameA, V1>>>>) =>
       /\ GraphKeys(graph) = <<IdA1, IdB1>>
       /\ GraphGet(graph, IdA1).dependencies = <<IdB1>>
       /\ GraphGet(graph, IdB1).dependencies = <<IdA1>>

C5_Witness ==
  /\ Built /\ registry = 2 /\ manifest = <<<<NameA, V1>>>>
  /\ HasCycle(graph)

(***************************************************************************)
(* C6.  Closure: the graph the builder hands to the installer, and the     *)
(* graph stored in the lock file, have every identifier of every           *)
(* dependencies list among their keys.                                     *)
(***************************************************************************)
C6_LockGraphClosed ==
  /\ Built => Closed(graph)
  /\ lockFile.exists => Closed(ParseLock(lockFile.bytes))

C6_Witness ==
  /\ lockFile.exists
  /\ \E i \in 1..Len(lockFile.bytes) : Len(ParseLock(lockFile.bytes)[i].info.dependencies) = 2

(***************************************************************************)
(* C7.  Integrity before write: the bytes of every cache write and of      *)
(* every extraction have the digest the node's integrity value names, and  *)
(* the file that is about to be extracted holds the bytes that were        *)
(* verified in this step.                                                  *)
(***************************************************************************)
C7_IntegrityBeforeWrite ==
  /\ \A e \in writeLog : e.hash = Integrity(e.bytes)
  /\ (pc = "install" /\ installStack # <<>> /\ phase = "extract") =>
       LET top == installStack[Len(installStack)]
           packageInfo == GraphGet(graph, top.id)
           f == TarFilename(ParsePackageIdentifier(top.id)[1], packageInfo.version)
       IN  /\ f \in DOMAIN cache
           /\ cache[f] = tarData
           /\ packageInfo.hash = Integrity(tarData)

C7_Witness ==
  /\ \E e \in writeLog : e.kind = "cache"
  /\ \E e \in writeLog : e.kind = "extract"
  /\ pc = "failed" /\ failKind = "filesystem"

(***************************************************************************)
(* C8.  Post-order: when a package is extracted, every identifier          *)
(* reachable from it through dependencies lists has been extracted         *)
(* earlier in the same run.                                                *)
(***************************************************************************)
C8_PostOrder ==
  \A i \in 1..Len(extracted) :
    \A d \in Reachable(graph, extracted[i]) :
      \E j \in 1..(i - 1) : extracted[j] = d

C8_Witness ==
  \E i \in 4..Len(extracted) :
    /\ Len(GraphGet(graph, extracted[i]).dependencies) = 2
    /\ graph[1].id = extracted[i]

(***************************************************************************)
(* C9.  On the rebuild path cleanup runs only when every node of the graph *)
(* has been installed, and the lock file is written only after cleanup, as *)
(* the last step of the run (after it the process has ended; pc is "idle"  *)
(* once an add command has followed).                                      *)
(***************************************************************************)
C9_RebuildOrder ==
  path = "rebuild" =>
    /\ cleanupDone => installed = Range(GraphKeys(graph))
    /\ lockWritten => cleanupDone /\ pc \in {"done", "idle"}
    /\ pc = "done" => lockWritten

C9_Witness ==
  /\ path = "rebuild" /\ pc = "done" /\ lockWritten
  /\ Len(graph) >= 2

C12_KeysAreReachableFromManifest ==
  (path = "rebuild" /\ pc = "done") =>
    LET roots == directCalls
        reach == roots \cup UNION {Reachable(graph, d) : d \in roots}
    IN  /\ {ParsePackageIdentifier(d)[1] : d \in roots} = ManifestNames(manifest)
        /\ Cardinality(roots) = Len(manifest)
        /\ Range(GraphKeys(graph)) = reach
        /\ Range(GraphKeys(ParseLock(lockFile.bytes))) = reach

C12_Witness ==
  /\ path = "rebuild" /\ pc = "done" /\ graph # <<>>
  /\ lockAtStart.exists
  /\ \E id \in Range(GraphKeys(ParseLock(lockAtStart.bytes))) :
       id \notin Range(GraphKeys(ParseLock(lockFile.bytes)))

(***************************************************************************)
(* C13.  Self-healing cache: a run in which the cached tarball of a        *)
(* package fails the integrity check ends with exit status 1 and with the  *)
(* cache file deleted; the following run (same manifest as the last        *)
(* successful run, no new environment fault) does not fail, downloads the  *)
(* tarball again, caches the published bytes, extracts the package and     *)
(* ends successfully.                                                      *)
(***************************************************************************)
C13_CacheSelfHeals ==
  /\ (pc = "failed" /\ failKind = "integrity" /\ isTarCached) =>
       LET top == installStack[Len(installStack)]
           f == TarFilename(ParsePackageIdentifier(top.id)[1],
                            GraphGet(graph, top.id).version)
       IN  f \notin DOMAIN cache
  /\ (healId # <<>> /\ faults = faultsAtStart) =>
       LET f == TarFilename(ParsePackageIdentifier(healId)[1],
                            ParsePackageIdentifier(healId)[2])
       IN  /\ pc # "failed"
           /\ healId \in installed =>
                /\ downloads >= 1
                /\ f \in DOMAIN cache
                /\ cache[f] = TarballBytes(healId)
                /\ \E e \in writeLog : e.kind = "cache" /\ e.id = healId
                /\ \E i \in 1..Len(extracted) : extracted[i] = healId
           /\ pc = "done" => healId \in installed

C13_Witness ==
  /\ healId # <<>> /\ pc = "done" /\ downloads = 1
  /\ Len(graph) >= 2

(***************************************************************************)
(* C14.  A run that fails at the hash check of extractTarball fails with   *)
(* an integrity error naming the package identifier, whether the bytes     *)
(* came from the cache or from a download; for a download no deletion is   *)
(* attempted, so that the error is never a filesystem error.               *)
(***************************************************************************)
C14_MismatchIsIntegrityError ==
  (pc = "failed" /\ phase = "verify") =>
    /\ failKind = "integrity"
    /\ failSubject = installStack[Len(installStack)].id

(***************************************************************************)
(* C15.  After cleanup in a successful install the top-level entries of    *)
(* node_modules are exactly the first path components of the names of the  *)
(* graph's keys: the bare name, or the scope directory of a scoped name.   *)
(* Every other entry, whatever earlier runs left behind, is gone with all  *)
(* that was below it, and every expected entry exists.                     *)
(***************************************************************************)
FirstComponent(name) ==
  IF StartsWith(name, "@") THEN Substring(name, 0, IndexOf(name, "/")) ELSE name

TopLevelEntries(modules) == {p[1] : p \in DOMAIN modules}

C15_CleanupLeavesExactlyGraphNames ==
  (cleanupDone /\ pc \in {"save", "done"}) =>
    TopLevelEntries(nodeModules) =
      {FirstComponent(ParsePackageIdentifier(id)[1]) : id \in Range(GraphKeys(graph))}

\* An earlier successful run installed a package whose directory the
\* present graph no longer names, and a scoped package is installed.
C15_Witness ==
  /\ pc = "done" /\ cleanupDone /\ lastOk.ok
  /\ \E id \in Range(GraphKeys(lastOk.graph)) :
       FirstComponent(ParsePackageIdentifier(id)[1]) \notin TopLevelEntries(nodeModules)
  /\ \E p \in DOMAIN nodeModules : Len(p) = 2

(***************************************************************************)
(* C16.  didDependenciesChange(M, L) returns true exactly when some name   *)
(* of M is not the name of a direct node of L, or the version of a direct  *)
(* node does not satisfy the range M gives for its name, or a direct node  *)
(* of L has a name that M lacks.  The nodes of L that are not direct do    *)
(* not influence the verdict: it is that of L without them.                *)
(***************************************************************************)
DirectNodes(L) == {i \in 1..Len(L) : L[i].info.isDirectDependency}

DirectOnly(L) ==
  LET F[i \in 0..Len(L)] ==
        IF i = 0 THEN <<>>
        ELSE IF i \in DirectNodes(L) THEN Append(F[i - 1], L[i]) ELSE F[i - 1]
  IN  F[Len(L)]

ExpectedVerdict(M, L) ==
  LET nameOf(i) == ParsePackageIdentifier(L[i].id)[1]
      versionOf(i) == ParsePackageIdentifier(L[i].id)[2]
  IN  \/ \E e \in Range(M) : \A i \in DirectNodes(L) : nameOf(i) # e[1]
      \/ \E e \in Range(M) : \E i \in DirectNodes(L) :
           nameOf(i) = e[1] /\ ~SemverSatisfies(versionOf(i), e[2])
      \/ \E i \in DirectNodes(L) : nameOf(i) \notin ManifestNames(M)

C17_ResolverResult ==
  (call.fn = "resolveVersion" /\ result # NoResult) =>
    LET index == RegistryIndex(registry, call.packageName)
        satisfying == {v \in Range(index.versions) : SemverSatisfies(v, call.versionRange)}
    IN  IF call.versionRange = Latest
        THEN result.ok /\ result.version = index.latest
        ELSE satisfying # {} =>
               /\ result.ok
               /\ result.version \in satisfying
               /\ \A w \in satisfying : SemverValue(w) <= SemverValue(result.version)

\* Two versions satisfy the range and the later published one is returned.
C17_Witness ==
  /\ call.fn = "resolveVersion" /\ result # NoResult
  /\ call.versionRange = Star
  /\ Len(RegistryIndex(registry, call.packageName).versions) >= 2
  /\ result.ok
  /\ result.version # RegistryIndex(registry, call.packageName).versions[1]

(***************************************************************************)
(* C18.  When no published version satisfies a requested range, the run    *)
(* fails with a resolution error whose message names name@range; the       *)
(* version cache never holds an entry for such a key; the failed run has   *)
(* extracted no package and has left the lock file as it found it.         *)
(***************************************************************************)
Unsatisfiable(name, range) ==
  /\ Published(name)
  /\ range # Latest
  /\ \A v \in Range(RegistryIndex(registry, name).versions) : ~SemverSatisfies(v, range)

C18_NoMatchAborts ==
  /\ \A k \in DOMAIN versionCache :
       ~Unsatisfiable(ParsePackageIdentifier(k)[1], ParsePackageIdentifier(k)[2])
  /\ (pc = "failed" /\ failKind = "resolution") =>
       /\ Unsatisfiable(ParsePackageIdentifier(failSubject)[1],
                        ParsePackageIdentifier(failSubject)[2])
       /\ failSubject \notin DOMAIN versionCache
       /\ extracted = <<>>
       /\ ~lockWritten
       /\ lockFile = lockAtStart
  /\ (pc \in {"install", "cleanup", "save", "done"} /\ path = "rebuild") =>
       \A i \in 1..Len(manifest) : ~Unsatisfiable(manifest[i][1], manifest[i][2])

\* A run over an existing lock file fails on its second manifest entry,
\* after the first has been built.
C18_Witness ==
  /\ pc = "failed" /\ failKind = "resolution"
  /\ lockAtStart.exists
  /\ graph # <<>>
  /\ failSubject = Identifier(manifest[Len(manifest)][1], manifest[Len(manifest)][2])

(***************************************************************************)
(* C19.  For every package name, bare or scoped, and every exact version   *)
(* without "@", parsePackageIdentifier(name + "@" + version) returns the   *)
(* pair (name, version).                                                   *)
(***************************************************************************)
C19_IdentifierRoundTrip ==
  (call.fn = "parsePackageIdentifier" /\ result # NoResult) =>
    /\ call.packageIdentifier = call.name \o <<"@">> \o call.version
    /\ result.value = <<call.name, call.version>>

\* A scoped name: the identifier has two "@" and the name keeps the first.
C19_Witness ==
  /\ call.fn = "parsePackageIdentifier" /\ result # NoResult
  /\ StartsWith(call.name, "@") /\ Includes(call.name, "/")
  /\ Len(call.version) > 1
  /\ result.value[1] = call.name

(***************************************************************************)
(* C20.  The add command splits its argument at the last "@" whose index   *)
(* is greater than 0, the range being "latest" when there is none; it      *)
(* sets dependencies[name] = range and leaves every other entry of the     *)
(* manifest as it was.                                                     *)
(***************************************************************************)
C20_AddSplitsAtLastAt ==
  (call.fn = "addPackage" /\ result # NoResult) =>
    LET atIndex == LastIndexOf(call.packageInfo, "@")
        name == IF atIndex > 0 THEN Substring(call.packageInfo, 0, atIndex)
                ELSE call.packageInfo
        range == IF atIndex > 0 THEN SubstringFrom(call.packageInfo, atIndex + 1)
                 ELSE Latest
    IN  /\ <<name, range>> \in Range(result.dependencies)
        /\ ManifestNames(result.dependencies) =
             ManifestNames(call.packageJson) \cup {name}
        /\ \A e \in Range(call.packageJson) :
             e[1] # name => e \in Range(result.dependencies)

(***************************************************************************)
(* C21.  Two exact versions of one package name are two nodes of the graph *)
(* and of the lock file; after a successful install node_modules holds one *)
(* directory for the name.  C21_FirstInstalledWins says its content is     *)
(* that of the version the post-order traversal installed first;           *)
(* C21_LastInstalledWins says it is that of the version installed last.    *)
(***************************************************************************)
SameNameKeys(g) ==
  {pair \in Range(GraphKeys(g)) \X Range(GraphKeys(g)) :
     /\ pair[1] # pair[2]
     /\ ParsePackageIdentifier(pair[1])[1] = ParsePackageIdentifier(pair[2])[1]}

ExtractedOfName(name) ==
  {i \in 1..Len(extracted) : ParsePackageIdentifier(extracted[i])[1] = name}

FirstOf(turns) == CHOOSE i \in turns : \A j \in turns : i <= j
LastOf(turns) == CHOOSE i \in turns : \A j \in turns : j <= i

\* which is "first" or "last": the extraction whose content the directory
\* is said to have.
OneDirectoryWithContentOf(which) ==
  pc = "done" =>
    \A pair \in SameNameKeys(graph) :
      LET name == ParsePackageIdentifier(pair[1])[1]
          turns == ExtractedOfName(name)
          turn == IF which = "first" THEN FirstOf(turns) ELSE LastOf(turns)
      IN  /\ {pair[1], pair[2]} \subseteq Range(GraphKeys(ParseLock(lockFile.bytes)))
          /\ PackageDir(name) \in DOMAIN nodeModules
          /\ Cardinality({p \in DOMAIN nodeModules : p = PackageDir(name)}) = 1
          /\ DirContent(nodeModules[PackageDir(name)]) = TarballBytes(extracted[turn])

C21_FirstInstalledWins == OneDirectoryWithContentOf("first")

C21_LastInstalledWins == OneDirectoryWithContentOf("last")

C21_Witness ==
  /\ pc = "done"
  /\ SameNameKeys(graph) # {}
  /\ \E p \in DOMAIN nodeModules : Len(nodeModules[p]) >= 2

(***************************************************************************)
(* C22.  After a successful install, for every identifier name@version of  *)
(* the graph the cache holds the file whose name is the package name with  *)
(* its first "/" replaced by "-", then "-", the version and ".tgz", and    *)
(* node_modules holds the package directory: name for a bare name,         *)
(* @scope and name below it for a scoped name.                             *)
(***************************************************************************)
ExpectedCacheFile(name, version) ==
  LET slash == IndexOf(name, "/")
      flat == IF slash = -1 THEN name
              ELSE Substring(name, 0, slash) \o <<"-">> \o SubstringFrom(name, slash + 1)
  IN  flat \o <<"-">> \o version \o <<".", "t", "g", "z">>

ExpectedDirectory(name) ==
  IF StartsWith(name, "@")
  THEN <<Substring(name, 0, IndexOf(name, "/")), SubstringFrom(name, IndexOf(name, "/") + 1)>>
  ELSE <<name>>

C22_CacheFileAndDirectoryPerNode ==
  pc = "done" =>
    \A id \in Range(GraphKeys(graph)) :
      LET name == ParsePackageIdentifier(id)[1]
          version == ParsePackageIdentifier(id)[2]
      IN  /\ ExpectedCacheFile(name, version) \in DOMAIN cache
          /\ ExpectedDirectory(name) \in DOMAIN nodeModules
          /\ nodeModules[ExpectedDirectory(name)] # <<>>

\* A cold install of a graph with a scoped and a bare package.
C22_Witness ==
  /\ pc = "done" /\ runs = 1 /\ downloads >= 2
  /\ \E id \in Range(GraphKeys(graph)) : StartsWith(id, "@")
  /\ \E id \in Range(GraphKeys(graph)) : ~StartsWith(id, "@")

(***************************************************************************)
(* C23.  The process exits with status 1 on every fatal error: a missing   *)
(* manifest, a failed install run, and every invalid command line (no      *)
(* command, an unknown command, add with a missing or an extra argument);  *)
(* it exits with status 0 only on success.                                 *)
(***************************************************************************)
ValidUsage(args) ==
  /\ Len(args) >= 1
  /\ \/ args[1] = "install"
     \/ args[1] = "add" /\ Len(args) = 2 /\ args[2] # <<>>

C23_FatalErrorsExitOne ==
  (call.fn = "main" /\ result # NoResult) =>
    result.exit = IF /\ ValidUsage(call.args)
                     /\ call.manifestExists
                     /\ ~(call.args[1] = "install" /\ call.runFails)
                  THEN 0 ELSE 1

(***************************************************************************)
(* C24.  The install operation never writes the manifest: every step of a  *)
(* run, from its start to its success or failure, on the lock path and on  *)
(* the rebuild path, leaves package.json as it is.  Only the add command,  *)
(* which is counted in adds, changes it.                                   *)
(***************************************************************************)
C24_InstallKeepsManifest == [][adds' = adds => manifest' = manifest]_vars

\* A third run has ended on the lock path after a failed run, with the
\* manifest of the first successful run.
C24_Witness ==
  /\ runs = MaxRuns /\ pc = "done" /\ path = "lock"
  /\ faults >= 1
  /\ manifest # <<>>
  /\ lastOk.ok /\ lastOk.manifest = manifest

(***************************************************************************)
(* C25.  With a lock file whose direct nodes satisfy the unchanged         *)
(* manifest, a run that starts after node_modules, the cache or both were  *)
(* deleted and that succeeds has restored every package of the locked      *)
(* graph: its directory exists, it was extracted in this run from bytes    *)
(* served at the locked tarball URL that match the locked hash, its cache  *)
(* file is named after the locked version; no graph was built and the      *)
(* lock file is the one the run found.                                     *)
(***************************************************************************)
C25_ReinstallFromLock ==
  (path = "lock" /\ pc = "done") =>
    /\ lockFile = lockAtStart
    /\ ~lockWritten
    /\ graph = ParseLock(lockAtStart.bytes)
    /\ requests = 0 /\ directCalls = {} /\ infoCache = EmptyMap
    /\ \A i \in 1..Len(graph) :
         LET id == graph[i].id
             info == graph[i].info
             name == ParsePackageIdentifier(id)[1]
             f == TarFilename(name, info.version)
         IN  /\ PackageDir(name) \in DOMAIN nodeModules
             /\ id \in Range(extracted)
             /\ \E e \in writeLog :
                  /\ e.kind = "extract" /\ e.id = id
                  /\ e.bytes = ServedBytes(info.tarballUrl)
                  /\ Integrity(e.bytes) = info.hash
             /\ f \in DOMAIN cache
             /\ faults = faultsAtStart => cache[f] = ServedBytes(info.tarballUrl)

\* Both directories were deleted: every package of a locked graph of two
\* or more nodes was downloaded again and every directory holds one
\* extraction.
C25_Witness ==
  /\ path = "lock" /\ pc = "done" /\ runs >= 2
  /\ Len(graph) >= 2
  /\ downloads = Len(graph)
  /\ \A p \in DOMAIN nodeModules : Len(nodeModules[p]) = 1

(***************************************************************************)
(* C26.  A run that finds a lock file L which the reconciler reports       *)
(* unchanged installs the nodes of L and nothing else, then cleans up      *)
(* against L and returns: at no point of the run is the version resolver   *)
(* or the graph builder called, and the lock file is never written.        *)
(***************************************************************************)
C26_LockPath ==
  (path = "lock" /\ pc # "idle") =>
    LET L == ParseLock(lockAtStart.bytes)
    IN  /\ lockAtStart.exists
        /\ ~DidDependenciesChange(manifest, L)
        /\ pc \in {"install", "cleanup", "done", "failed"}
        /\ graph = L
        /\ versionCache = EmptyMap /\ requests = 0
        /\ buildStack = <<>> /\ ~pending.active /\ mIdx = 1
        /\ ~lockWritten /\ lockFile = lockAtStart
        /\ Range(extracted) \subseteq Range(GraphKeys(L))
        /\ cleanupDone <=> pc = "done"
        /\ pc = "done" =>
             /\ Range(extracted) = Range(GraphKeys(L))
             /\ TopLevelEntries(nodeModules) =
                  {PackageDir(ParsePackageIdentifier(id)[1])[1] : id \in Range(GraphKeys(L))}

\* A lock-path run over a warm cache has ended: nothing was downloaded.
C26_Witness ==
  /\ path = "lock" /\ pc = "done" /\ cleanupDone
  /\ Len(graph) >= 2 /\ downloads = 0
  /\ Len(extracted) = Len(graph)

(***************************************************************************)
(* C27.  Within one process the registry index is requested at most once   *)
(* for a pair (name, range): no cache key occurs twice among the index     *)
(* requests of a run, although the child ranges of a package are resolved  *)
(* by requests started together; the version cache holds exactly the keys  *)
(* whose request was answered, and every later resolution of such a key,   *)
(* a child identifier of a node included, has the cached version.          *)
(***************************************************************************)
C27_IndexFetchedOncePerKey ==
  /\ \A i, j \in 1..Len(indexFetches) : i # j => indexFetches[i] # indexFetches[j]
  /\ DOMAIN versionCache \subseteq Range(indexFetches)
  /\ pc \notin {"failed", "idle"} => Range(indexFetches) \subseteq DOMAIN versionCache
  /\ path = "rebuild" =>
       \A i \in 1..Len(graph) :
         LET name == ParsePackageIdentifier(graph[i].id)[1]
             deps == PublishedDependencies(registry, name, graph[i].info.version)
         IN  \A d \in 1..Len(deps) :
               LET key == Identifier(deps[d][1], deps[d][2])
               IN  /\ key \in DOMAIN versionCache
                   /\ Identifier(deps[d][1], versionCache[key])
                        \in Range(graph[i].info.dependencies)

\* A manifest entry and a dependency of a node are the same pair: it was
\* resolved twice and requested once.
C27_Witness ==
  /\ path = "rebuild" /\ pc = "done"
  /\ Len(indexFetches) >= 2
  /\ \E m \in 1..Len(manifest) : \E i \in 1..Len(graph) :
       <<manifest[m][1], manifest[m][2]>> \in
         Range(PublishedDependencies(registry, ParsePackageIdentifier(graph[i].id)[1],
                                     graph[i].info.version))

(***************************************************************************)
(* C28.  The dependencies list of every node lists the child identifiers   *)
(* in the order of the entries of the published dependencies object,       *)
(* whatever the order in which the child resolutions complete.             *)
(***************************************************************************)
C28_ChildrenInEntryOrder ==
  path = "rebuild" =>
    \A i \in 1..Len(graph) :
      LET name == ParsePackageIdentifier(graph[i].id)[1]
          deps == PublishedDependencies(registry, name, graph[i].info.version)
          children == graph[i].info.dependencies
      IN  /\ Len(children) = Len(deps)
          /\ \A d \in 1..Len(deps) :
               /\ ParsePackageIdentifier(children[d])[1] = deps[d][1]
               /\ \/ deps[d][2] = Latest
                  \/ SemverSatisfies(ParsePackageIdentifier(children[d])[2], deps[d][2])

\* A node with two children, installed and written to the lock file.
C28_Witness ==
  /\ path = "rebuild" /\ pc = "done"
  /\ \E i \in 1..Len(graph) :
       /\ Len(graph[i].info.dependencies) >= 2
       /\ graph[i].info.dependencies[1] # graph[i].info.dependencies[2]
  /\ ParseLock(lockFile.bytes) = graph

(***************************************************************************)
(* C29.  During a build the direct flag of a node is monotonic: a node     *)
(* whose isDirectDependency is true stays in the graph with the flag true  *)
(* through every later build call, also when its identifier is reached     *)
(* again as a transitive dependency; and the graph never holds two nodes   *)
(* of one identifier.                                                      *)
(***************************************************************************)
C29_DirectFlagMonotonic ==
  [][pc = "build" =>
       /\ \A i \in 1..Len(graph) :
            graph[i].info.isDirectDependency =>
              /\ GraphHas(graph', graph[i].id)
              /\ GraphGet(graph', graph[i].id).isDirectDependency
       /\ \A i, j \in 1..Len(graph') : i # j => graph'[i].id # graph'[j].id]_vars

\* A direct node is also a child of a node of the finished graph: a build
\* call with directDependency = false has reached it.
C29_Witness ==
  /\ path = "rebuild" /\ pc = "done"
  /\ \E i, j \in 1..Len(graph) :
       /\ graph[i].info.isDirectDependency
       /\ graph[i].id \in Range(graph[j].info.dependencies)

(***************************************************************************)
(* C30.  In a successful installer run every identifier of the graph is    *)
(* extracted exactly once: no identifier is extracted twice, although it   *)
(* is reached through several dependents and again by the top-level loop,  *)
(* and when the installer returns the installed set is the key set of the  *)
(* graph.                                                                  *)
(***************************************************************************)
C30_ExtractedExactlyOnce ==
  /\ pc \in {"install", "cleanup", "save", "done"} =>
       /\ \A i, j \in 1..Len(extracted) : i # j => extracted[i] # extracted[j]
       /\ installed = Range(extracted)
       /\ installed \subseteq Range(GraphKeys(graph))
  /\ pc \in {"cleanup", "save", "done"} =>
       /\ installed = Range(GraphKeys(graph))
       /\ Len(extracted) = Len(graph)

\* Finished run over a graph in which one node is a child of two others,
\* so that it is reached three times.
C30_Witness ==
  /\ pc = "done" /\ Len(extracted) >= 3
  /\ \E i, j, k \in 1..Len(graph) :
       /\ i # j
       /\ graph[k].id \in Range(graph[i].info.dependencies)
       /\ graph[k].id \in Range(graph[j].info.dependencies)

(***************************************************************************)
(* C31.  Cache before network: the installer requests a tarball only in    *)
(* retrieveTarball and only when the cache file of the package's name and  *)
(* version does not exist at that step; when the file exists, the step     *)
(* makes no tarball request and hands on the bytes of the file, marked as  *)
(* cached.                                                                 *)
(***************************************************************************)
CacheFileOfTop ==
  LET top == installStack[Len(installStack)]
  IN  TarFilename(ParsePackageIdentifier(top.id)[1], GraphGet(graph, top.id).version)

C31_CacheBeforeNetwork ==
  [][/\ downloads' > downloads =>
          /\ pc = "install" /\ phase = "retrieve"
          /\ CacheFileOfTop \notin DOMAIN cache
          /\ downloads' = downloads + 1
     /\ (pc = "install" /\ phase = "retrieve" /\ CacheFileOfTop \in DOMAIN cache) =>
          /\ downloads' = downloads
          /\ tarData' = cache[CacheFileOfTop]
          /\ isTarCached'
          /\ phase' = "verify"]_vars

\* A later run has read a tarball from the cache without any request.
C31_Witness ==
  /\ runs >= 2 /\ pc = "install" /\ phase = "verify"
  /\ isTarCached /\ downloads = 0
  /\ tarData = cache[CacheFileOfTop]

(***************************************************************************)
(* C32.  The installer writes a cache file only for a tarball it has just  *)
(* downloaded and verified, and only where no file exists: it never        *)
(* changes the bytes of an existing cache file.  Every extraction happens  *)
(* with the cache file of the package present and unchanged by the         *)
(* extraction, and for a fresh download the write of the verified bytes    *)
(* has happened before the extraction.                                     *)
(***************************************************************************)
CacheWrites(log) == {e \in log : e.kind = "cache"}

C32_CacheWriteBeforeExtraction ==
  [][/\ (pc = "install" /\ CacheWrites(writeLog') # CacheWrites(writeLog)) =>
          /\ phase = "verify" /\ ~isTarCached
          /\ CacheFileOfTop \notin DOMAIN cache
          /\ DoesHashMatch(tarData, GraphGet(graph, installStack[Len(installStack)].id).hash)
          /\ cache' = MapSet(cache, CacheFileOfTop, tarData)
          /\ extracted' = extracted
     /\ pc = "install" =>
          \A f \in DOMAIN cache \cap DOMAIN cache' : cache'[f] = cache[f]
     /\ (pc = "install" /\ extracted' # extracted) =>
          LET top == installStack[Len(installStack)]
          IN  /\ CacheFileOfTop \in DOMAIN cache
              /\ cache' = cache
              /\ DoesHashMatch(cache[CacheFileOfTop], GraphGet(graph, top.id).hash)
              /\ ~isTarCached =>
                   \E e \in CacheWrites(writeLog) :
                     e.id = top.id /\ e.bytes = cache[CacheFileOfTop]]_vars

\* A finished run that extracted one package from a file it wrote itself
\* and another from a file of an earlier run.
C32_Witness ==
  /\ pc = "done" /\ runs >= 2
  /\ downloads >= 1 /\ downloads < Len(extracted)
  /\ \E i \in 1..Len(extracted) :
       \E e \in CacheWrites(writeLog) : e.id = extracted[i]

(***************************************************************************)
(* C33.  Flat-layout conflict policy: after a successful run over a graph  *)
(* with two exact versions of one name, the run has extracted the nodes in *)
(* the post-order of installFromGraph, both versions have been extracted   *)
(* into the one package directory of the name, and the directory has the   *)
(* content of the version that comes last in that post-order.              *)
(***************************************************************************)
\* The sequence of identifiers installFromGraph extracts from an acyclic,
\* closed graph: InstallOrder is installPackage, InstallOrderOfAll a loop
\* of installPackage calls; seq plays the part of the installed set.
RECURSIVE InstallOrder(_, _, _), InstallOrderOfAll(_, _, _)
InstallOrder(g, id, seq) ==
  IF id \in Range(seq) THEN seq
  ELSE Append(InstallOrderOfAll(g, GraphGet(g, id).dependencies, seq), id)

InstallOrderOfAll(g, ids, seq) ==
  IF ids = <<>> THEN seq
  ELSE InstallOrderOfAll(g, Tail(ids), InstallOrder(g, Head(ids), seq))

PostOrderOf(g) == InstallOrderOfAll(g, GraphKeys(g), <<>>)

\* The one of two identifiers that comes later in order.
LaterIn(order, a, b) ==
  LET pos(x) == CHOOSE i \in 1..Len(order) : order[i] = x
  IN  IF pos(a) > pos(b) THEN a ELSE b

C33_LastInPostOrderMaterializes ==
  pc = "done" =>
    /\ extracted = PostOrderOf(graph)
    /\ \A pair \in SameNameKeys(graph) :
         LET dir == PackageDir(ParsePackageIdentifier(pair[1])[1])
         IN  /\ dir = PackageDir(ParsePackageIdentifier(pair[2])[1])
             /\ \E i, j \in 1..Len(nodeModules[dir]) :
                  /\ nodeModules[dir][i] = TarballBytes(pair[1])
                  /\ nodeModules[dir][j] = TarballBytes(pair[2])
             /\ DirContent(nodeModules[dir]) =
                  TarballBytes(LaterIn(PostOrderOf(graph), pair[1], pair[2]))

\* Versions 1 and 2 of @s/c are both in the graph and version 1, installed
\* last, is what the directory holds.
C33_Witness ==
  /\ pc = "done"
  /\ GraphHas(graph, Identifier(NameC, V1)) /\ GraphHas(graph, Identifier(NameC, V2))
  /\ DirContent(nodeModules[PackageDir(NameC)]) = TarballBytes(Identifier(NameC, V1))
  /\ extracted[Len(extracted)] # Identifier(NameC, V1)

(***************************************************************************)
(* C34.  Cleanup removes every unused package: once cleanup has run in a   *)
(* run that does not fail, every package directory of node_modules is that *)
(* of a package name of the graph, also below a scope directory that is    *)
(* kept for another package.                                               *)
(***************************************************************************)
\* The package name a package directory stands for.
PackageNameOfDir(packageDir) ==
  IF Len(packageDir) = 2 THEN packageDir[1] \o <<"/">> \o packageDir[2]
  ELSE packageDir[1]

GraphNames(g) == {ParsePackageIdentifier(id)[1] : id \in Range(GraphKeys(g))}

C34_CleanupRemovesEveryUnusedPackage ==
  (cleanupDone /\ pc \in {"save", "done"}) =>
    \A packageDir \in DOMAIN nodeModules :
      PackageNameOfDir(packageDir) \in GraphNames(graph)

(***************************************************************************)
(* C35.  Failure is terminal for the installer.  The step in which a       *)
(* package's download, verification or extraction fails ends the process:  *)
(* it extracts nothing, writes no cache file, leaves node_modules as it is *)
(* (every package extracted earlier in the run is still in its directory)  *)
(* and cleanup and the lock file write have not run.  From then on, until  *)
(* a new run starts, nothing is downloaded, cached or extracted and        *)
(* neither cleanup nor the lock file write happens.                        *)
(***************************************************************************)
ExtractedStayOnDisk(modules) ==
  \A i \in 1..Len(extracted) :
    LET packageDir == PackageDir(ParsePackageIdentifier(extracted[i])[1])
    IN  /\ packageDir \in DOMAIN modules
        /\ TarballBytes(extracted[i]) \in Range(modules[packageDir])

C35_InstallerFailureIsTerminal ==
  [][/\ (pc = "install" /\ failKind = "none" /\ failKind' # "none") =>
          /\ pc' = "failed"
          /\ extracted' = extracted /\ writeLog' = writeLog
          /\ nodeModules' = nodeModules
          /\ ExtractedStayOnDisk(nodeModules')
          /\ ~cleanupDone' /\ ~lockWritten' /\ lockFile' = lockAtStart
     /\ failKind # "none" => pc \in {"failed", "idle"}
     /\ (pc = "failed" /\ runs' = runs) =>
          /\ pc' \in {"failed", "idle"}
          /\ UNCHANGED <<downloads, extracted, writeLog, cleanupDone, lockWritten,
                         lockFile, installed>>
          /\ faults' = faults => UNCHANGED <<nodeModules, cache>>]_vars

\* A run has failed at a package after extracting another, with nodes of
\* the graph left that were never installed.
C35_Witness ==
  /\ pc = "failed" /\ failKind \in {"transport", "integrity", "filesystem", "extract"}
  /\ installStack # <<>>
  /\ extracted # <<>> /\ ExtractedStayOnDisk(nodeModules)
  /\ Len(extracted) + 1 < Len(graph)
  /\ ~cleanupDone

(***************************************************************************)
(* C36.  Cache file names are unambiguous: two different pairs of a valid  *)
(* package name and an exact version have different cache file names.      *)
(***************************************************************************)
C36_CacheFileNamesUnambiguous ==
  (call.fn = "tarFilename" /\ result # NoResult /\ call.first # call.second) =>
    result.first # result.second

(***************************************************************************)
(* C37.  The range "latest" is satisfied by no locked version in the       *)
(* reconciler: a run that starts with a lock file present and a manifest   *)
(* with an entry "latest" is judged changed, takes the rebuild path with   *)
(* an empty graph and asks the registry for every manifest entry and every *)
(* node; when it succeeds it has written the lock file again.              *)
(***************************************************************************)
HasLatestEntry(m) == \E i \in 1..Len(m) : m[i][2] = Latest

C38_BuildBeforeInstall ==
  [][pc = "build" =>
       /\ UNCHANGED <<nodeModules, cache, lockFile, manifest, downloads, extracted,
                      writeLog, cleanupDone, lockWritten, installed>>
       /\ downloads = 0 /\ extracted = <<>> /\ writeLog = {} /\ installed = {}
       /\ ~cleanupDone /\ ~lockWritten /\ lockFile = lockAtStart
       /\ pc' \in {"build", "failed", "install"}
       /\ pc' = "failed" => failKind' \in {"transport", "unknown", "resolution"}
       /\ pc' = "install" =>
            /\ graph' = graph /\ Closed(graph)
            /\ ManifestNames(manifest) \subseteq GraphNames(graph)]_vars

\* A first run has failed on a metadata or version request of a transitive
\* dependency, after building part of the graph, and the disk is untouched.
C38_Witness ==
  /\ pc = "failed" /\ failKind = "transport" /\ runs = 1
  /\ Len(graph) >= 2 /\ gIdx = 1 /\ installStack = <<>>
  /\ DOMAIN nodeModules = {} /\ DOMAIN cache = {}
  /\ ~lockFile.exists /\ downloads = 0 /\ ~cleanupDone

(***************************************************************************)
(* C39.  Installing from a lock file whose graph is not closed fails.  A   *)
(* run on the lock path over such a graph never gets past the installer:   *)
(* it runs neither cleanup nor a lock file write and does not end with     *)
(* exit status 0.  When it fails on the missing node, the error names an   *)
(* identifier that some dependencies list has and that is not a key, no    *)
(* package that lists or reaches it has been extracted, and the lock file  *)
(* is as it was.                                                           *)
(***************************************************************************)
Dependents(g, id) == {x \in Range(GraphKeys(g)) : id \in Reachable(g, x)}

C39_UnclosedLockFails ==
  /\ (pc # "idle" /\ runs >= 1 /\ path = "lock" /\ ~Closed(graph)) =>
       /\ pc \in {"install", "failed"}
       /\ ~cleanupDone /\ ~lockWritten /\ lockFile = lockAtStart
       /\ pc = "failed" =>
            failKind \in {"notfound", "transport", "integrity", "filesystem", "extract"}
  /\ (pc = "failed" /\ failKind = "notfound") =>
       /\ path = "lock" /\ ~Closed(graph)
       /\ ~GraphHas(graph, failSubject)
       /\ Dependents(graph, failSubject) # {}
       /\ Dependents(graph, failSubject) \cap Range(extracted) = {}
       /\ ~cleanupDone /\ ~lockWritten /\ lockFile = lockAtStart

\* The run has extracted two packages and then failed on @s/d@1, which
\* @s/c@2 lists and the lock file lacks.
C39_Witness ==
  /\ pc = "failed" /\ failKind = "notfound"
  /\ failSubject = Identifier(NameD, V1)
  /\ Len(extracted) = 2
  /\ Identifier(NameC, V2) \notin Range(extracted)

====
